------------------------------ MODULE MCServer ------------------------------
(* One client; every reload gives the upstream a client of its own.         *)
EXTENDS Server

Client == [family |-> "V4", bits |-> 0]

OneAddr == {Client}

Query == [wellformed |-> TRUE, standard |-> TRUE, tcp |-> FALSE, edns |-> FALSE,
          addr |-> Client, kind |-> "Answer", ptr |-> FALSE]

UdpOnly == {Query}

RrlOnOrOff == {[rrl_on |-> on_off, upstream |-> FALSE] : on_off \in BOOLEAN}
=============================================================================
