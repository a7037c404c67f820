---------------------------- MODULE MCForwarding ----------------------------
(* Context sources for instances of Forwarding *)
EXTENDS Forwarding

\* One that is asked, one with two RegistrationInfos, some that loop or may not be asked
Source(mode, info, loop, ops) == [mode |-> mode, info |-> info, loop |-> loop, ops |-> ops]
Sources == {
  Source("exclusive", <<{"a"}>>, FALSE, TRUE), Source("exclusive", <<{"a"}, {"b"}>>, FALSE, TRUE),
  Source("redirect", <<{"a"}>>, TRUE, TRUE), Source("redirect", <<{"b"}>>, FALSE, TRUE),
  Source("redirect", <<{"a"}, {"b"}>>, FALSE, FALSE), Source("inclusive", <<{"a", "b"}>>, FALSE, TRUE)}

\* One that claims two attributes, each in a RegistrationInfo of its own
TwoEntries == {Source("exclusive", <<{"a"}, {"b"}>>, FALSE, TRUE)}
=============================================================================
