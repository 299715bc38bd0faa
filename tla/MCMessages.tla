----------------------------- MODULE MCMessages -----------------------------
(* Messages for TLC, with the widths of the code: names of 255 bytes, names *)
(* that grow to 255 bytes and beyond when they are decoded, user names that *)
(* fit their length byte and one that does not.                             *)
EXTENDS Messages

Copies(b, n) == [i \in 1..n |-> b]
Letter == 97

GreetingSet == {<<5, 1, 0>>, <<5, 2, 2, 0>>, <<5, 1, 2>>, <<5, 0>>, <<4, 1>>}

Domains ==
  {Copies(Letter, n) : n \in {0, 1, 11, 254, 255}}
    \cup {Copies(Bad, n) : n \in {1, 85, 86, 255}}
    \cup {<<Letter, Bad>> \o Replacement \o <<Letter>>, SubSeq(Replacement, 1, 2),
          SubSeq(Replacement, 1, 2) \o <<Letter>>}

Request(command, type, host) ==
  [version |-> 5, command |-> command, type |-> type, host |-> host, port |-> 443]

RequestSet ==
  {Request(1, Domain, host) : host \in Domains}
    \cup {Request(command, Ipv4, <<127, 0, 0, 1>>) : command \in {1, 2, 9}}
    \cup {Request(1, Ipv6, Copies(0, 15) \o <<1>>), Request(1, 2, <<>>)}
    \cup {[Request(1, Ipv4, <<127, 0, 0, 1>>) EXCEPT !.version = 4]}

Data == <<5, 1, 0>>

UsernameSet == {Copies(Letter, n) : n \in {6, 255, 256}}
=============================================================================
