-------------------------- MODULE MCServerHistory ---------------------------
(* One client; every kind of request that takes a path of its own; reloads  *)
(* that turn the upstream off and on and rate limiting with it.             *)
EXTENDS ServerHistory

Client == [family |-> "V4", bits |-> 0]

OneAddr == {Client}

Query == [wellformed |-> TRUE, standard |-> TRUE, tcp |-> FALSE, edns |-> FALSE,
          addr |-> Client, kind |-> "Answer", ptr |-> FALSE]

SomeRequests ==
    { [Query EXCEPT !.ptr = TRUE, !.edns = TRUE],       \* may ask an upstream
      [Query EXCEPT !.kind = "Negative", !.tcp = TRUE],
      [Query EXCEPT !.standard = FALSE, !.edns = TRUE],
      [Query EXCEPT !.wellformed = FALSE] }

Files == { [rrl_on |-> TRUE, upstream |-> TRUE], [rrl_on |-> FALSE, upstream |-> FALSE] }
=============================================================================
