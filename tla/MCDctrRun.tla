------------------------------ MODULE MCDctrRun -------------------------------
(***************************************************************************)
(* Instances of DctrRun for TLC.                                           *)
(***************************************************************************)
EXTENDS DctrRun, TLC

CONSTANTS p1, p2, p3, n1, n2

\* Two configurations that bind the same host port.
Registry == [image |-> "registry", port |-> 1]
Mirror == [image |-> "mirror", port |-> 1]

TwoNames == {n1, n2}
ThreeCalls == {p1, p2, p3}
TwoConfigs == {Registry, Mirror}

\* Two calls race on n1, and a third runs a service that may hold their port.
Neighbours ==
  /\ arg[p1].name = n1 /\ arg[p2].name = n1 /\ arg[p3].name = n2
  /\ images = Images

\* Three calls with one configuration race on n1, by themselves. The image may
\* have to be pulled.
Crowd ==
  /\ \A p \in Calls : arg[p] = [name |-> n1, config |-> Registry]
  /\ ctr[n2] = Gone
  /\ images \in {{}, Images}

MCInit == Init /\ (Neighbours \/ Crowd)

MCSpec == MCInit /\ [][Next]_vars /\ Fairness

==============================================================================
