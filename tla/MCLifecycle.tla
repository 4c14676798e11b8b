---------------------------- MODULE MCLifecycle -----------------------------
(***************************************************************************)
(* Two instances, of which one gets signals; files that listen on one      *)
(* address or on the default, and two that cannot be used; --listen with   *)
(* any port and without an address; another program has one of the two TCP *)
(* ports.                                                                  *)
(***************************************************************************)
EXTENDS Lifecycle

At(ip, port) == [ip |-> ip, port |-> port]

Loads(addresses) == [ok |-> TRUE, clients |-> TRUE, listen |-> addresses]

SomeContents == {Loads(<<At("v4", 1)>>), Loads(<<>>),
                 [ok |-> TRUE, clients |-> FALSE, listen |-> <<>>],
                 [ok |-> FALSE, clients |-> FALSE, listen |-> <<>>]}

NotAnAddress == At("none", 0)

SomeCli == {<<>>, <<At("v4", 0)>>, <<NotAnAddress>>}

Wildcards == <<At("v4", 1), At("v6", 1)>>

OtherProgram == {At("v4", 2)}
=============================================================================
