------------------------------ MODULE UiServer ------------------------------
(***************************************************************************)
(* The user interface from start to end: a process prepares its keys and   *)
(* known_hosts (UiTrust), listens unless another one does, serves requests *)
(* (UiOperations) and target checks, and stops, possibly leaving a command *)
(* alone for a later server to meet.                                       *)
(***************************************************************************)
EXTENDS UiOperations, UiTrust

CONSTANT MaxTraffic  \* bound: requests, target checks and starts together

ASSUME TrafficAssumption == MaxTraffic \in Nat

vars == <<operations, trust>>

Init == OperationsInit /\ TrustInit

\* net.Listen succeeds only where no other server has the port; a second
\* process opens the window of the first and ends.
Listen ==
  /\ \E p \in Processes :
       \/ /\ server = "off"
          /\ GoesOn(p, "listen", "serve")
          /\ server' = "up"
       \/ /\ server = "up"
          /\ GoesOn(p, "listen", "gone")
          /\ UNCHANGED server
  /\ UNCHANGED <<platform, signal, request, operation, cancelled, child, orphans, disk,
                 keyFiles, raced, targets>>

Prepare == Start /\ UNCHANGED operations

Operate ==
  /\ Handle \/ Run \/ AskChild \/ KillChild \/ ChildStep \/ OrphanStep
     \/ CloseFromOutside \/ BeginStop
  /\ UNCHANGED trust

CheckTarget ==
  /\ Serving
  /\ TargetCheck(Running)
  /\ UNCHANGED operations

\* The process ends, and the target checks with it.
Stop ==
  /\ Exit
  /\ start' = [p \in Processes |-> IF start[p] = "serve" THEN "gone" ELSE start[p]]
  /\ lock' = 0
  /\ check' = [c \in Checks |-> IF check[c].at = "new" THEN NoCheck
                                ELSE [NoCheck EXCEPT !.at = "done"]]
  /\ UNCHANGED <<keyFiles, raced, hosts, confirmed>>

\* The load of a run: a target check weighs more than a request, and the starts
\* weigh more the more there are.
Traffic == LET starts == Cardinality({p \in Processes : start[p] # "off"})
           IN 2 * Cardinality({r \in Requests : request[r].at # "new"})
              + 3 * Cardinality({c \in Checks : check[c].at # "new"})
              + starts * (starts + 1)

Next ==
  /\ Prepare \/ Listen \/ Operate \/ CheckTarget \/ Stop
  /\ Traffic' <= MaxTraffic

\* The goroutines of a running operation are scheduled; the child is not
\* assumed to do anything.
Fairness ==
  /\ WF_vars(Run /\ UNCHANGED trust)
  /\ WF_vars(AskChild /\ UNCHANGED trust)
  /\ WF_vars(KillChild /\ UNCHANGED trust)

Spec == Init /\ [][Next]_vars /\ Fairness

TypeOK == OperationsTypeOK /\ TrustTypeOK

=============================================================================
