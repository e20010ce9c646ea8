----------------------- MODULE NodeTerminationProofs -----------------------
(***************************************************************************)
(* No NodeClaim goes, and none is collected, while its node exists, for    *)
(* any NodeClaims and nodes.                                               *)
(*                                                                         *)
(* What was found missing once stays so: a node that a NodeClaim or a      *)
(* reply names was created, and a node is created once; and a NodeClaim    *)
(* that names a node names it for good, since it is never launched again.  *)
(***************************************************************************)
EXTENDS NodeTermination, TLAPS

\* Named nodes were created.
NamedWereCreated ==
  \A c \in Claim :
    /\ providerID[c] # None => cloud[providerID[c]] # "free"
    /\ reply[c] # None => cloud[reply[c]] # "free"

\* A launch is for a NodeClaim without a node, that is not gone.
LaunchOnce ==
  \A c \in Claim :
    /\ pc[c] \in {"creating", "created"} => providerID[c] = None
    /\ c \in gone => pc[c] = "idle"

NotFoundIsMissing == \A c \in Claim : pc[c] = "notFound" => ~Exists(providerID[c])

\* What List did not show is missing, and a NodeClaim of the snapshot has a node.
UnlistedIsMissing ==
  \A c \in gcClaims :
    /\ providerID[c] # None
    /\ gcStep = "collect" /\ providerID[c] \notin gcListed => ~Exists(providerID[c])

CollectedHaveNode == \A c \in collected : providerID[c] # None

IInv ==
  /\ TypeOK /\ NamedWereCreated /\ LaunchOnce /\ NotFoundIsMissing /\ UnlistedIsMissing
  /\ CollectedHaveNode /\ NoNodeLeftBehind /\ CollectedForCause

-----------------------------------------------------------------------------

\* The initial states satisfy the invariant.
LEMMA InitInv == Init => IInv
BY IdAssumption
   DEF Init, IInv, TypeOK, NamedWereCreated, LaunchOnce, NotFoundIsMissing, UnlistedIsMissing,
       CollectedHaveNode, NoNodeLeftBehind, CollectedForCause

\* Steps of the cloud never bring back a node, so that what is missing stays so.
LEMMA CloudStep ==
  ASSUME IInv, cloud' \in [NodeId \cup Foreign -> {"free", "running", "deleting", "gone"}],
         \A n \in NodeId \cup Foreign :
           cloud[n] # "free" => cloud'[n] # "free" /\ (~Exists(n) => ~Exists(n)'),
         UNCHANGED <<claims, calls, gc>>
  PROVE  IInv'
<1> USE DEF claims, calls, gc
<1>1. TypeOK'
  BY DEF IInv, TypeOK
<1>2. \A c \in Claim : providerID[c] \in NodeId \cup {None} /\ reply[c] \in NodeId \cup {None}
  BY DEF IInv, TypeOK
<1>3. \A c \in Claim : providerID[c] # None =>
        cloud'[providerID[c]] # "free" /\ (~Exists(providerID[c]) => ~Exists(providerID[c])')
  BY <1>2 DEF IInv, NamedWereCreated, Exists
<1>4. \A c \in Claim : ~Exists(providerID[c]) => ~Exists(providerID[c])'
  BY <1>3 DEF Exists
<1>5. NamedWereCreated'
  BY <1>2, <1>3 DEF IInv, NamedWereCreated
<1>6. gcClaims \subseteq Claim /\ gone \subseteq Claim /\ collected \subseteq Claim
  BY DEF IInv, TypeOK
<1>7. NotFoundIsMissing' /\ UnlistedIsMissing'
  BY <1>4, <1>6 DEF IInv, NotFoundIsMissing, UnlistedIsMissing
<1>8. NoNodeLeftBehind' /\ CollectedForCause'
  BY <1>4, <1>6 DEF IInv, NoNodeLeftBehind, CollectedForCause
<1> QED
  BY <1>1, <1>5, <1>7, <1>8 DEF IInv, LaunchOnce, CollectedHaveNode

\* A step that leaves the cloud, the NodeClaims and the collector alone, and the
\* calls of all NodeClaims but one, which goes on without naming a node.
LEMMA CallStep ==
  ASSUME IInv, NEW c \in Claim, NEW p \in {"idle", "creating", "notFound", "waiting"},
         UNCHANGED <<cloud, claims, reply, gc>>, pc' = [pc EXCEPT ![c] = p],
         p = "creating" => providerID[c] = None,
         c \in gone => p = "idle",
         p \in {"notFound", "waiting"} => c \in deleting /\ providerID[c] # None,
         p = "notFound" => ~Exists(providerID[c])
  PROVE  IInv'
<1> USE DEF claims, gc
<1>1. TypeOK'
  BY DEF IInv, TypeOK
<1>2. \A d \in Claim : pc'[d] = IF d = c THEN p ELSE pc[d]
  BY DEF IInv, TypeOK
<1>3. \A n : Exists(n)' = Exists(n)
  BY DEF Exists
<1>4. NotFoundIsMissing' /\ LaunchOnce'
  BY <1>2, <1>3 DEF IInv, NotFoundIsMissing, LaunchOnce
<1> QED
  BY <1>1, <1>3, <1>4
     DEF IInv, NamedWereCreated, UnlistedIsMissing, CollectedHaveNode, NoNodeLeftBehind,
         CollectedForCause

\* Every step preserves the invariant.
LEMMA StepInv == IInv /\ [Next]_vars => IInv'
<1> SUFFICES ASSUME IInv, [Next]_vars PROVE IInv'
  OBVIOUS
<1>a. TypeOK
  BY DEF IInv
<1>e. UNCHANGED cloud => \A n : Exists(n)' = Exists(n)
  BY DEF Exists
<1>1. ASSUME NEW c \in Claim, Launch(c) PROVE IInv'
  BY <1>1, <1>a, CallStep DEF Launch, claims, TypeOK
<1>2. ASSUME NEW c \in Claim, NodeCreated(c) PROVE IInv'
  <2>1. PICK n \in NodeId :
          /\ cloud[n] = "free"
          /\ cloud' = [cloud EXCEPT ![n] = "running"]
          /\ reply' = [reply EXCEPT ![c] = n]
    BY <1>2 DEF NodeCreated
  <2>2. pc[c] = "creating" /\ pc' = [pc EXCEPT ![c] = "created"] /\ UNCHANGED <<claims, gc>>
    BY <1>2 DEF NodeCreated
  <2>3. TypeOK'
    BY <1>a, <2>1, <2>2, IdAssumption DEF TypeOK, claims, gc
  <2>4. NamedWereCreated'
    <3>1. \A d \in Claim : reply'[d] = IF d = c THEN n ELSE reply[d]
      BY <1>a, <2>1 DEF TypeOK
    <3>2. \A m \in NodeId \cup Foreign : cloud'[m] = IF m = n THEN "running" ELSE cloud[m]
      BY <1>a, <2>1 DEF TypeOK
    <3>3. \A d \in Claim : providerID[d] \in NodeId \cup {None} /\ reply[d] \in NodeId \cup {None}
      BY <1>a DEF TypeOK
    <3> QED BY <2>2, <3>1, <3>2, <3>3 DEF IInv, NamedWereCreated, claims
  <2>5. \A d \in Claim : providerID[d] # None => Exists(providerID[d])' = Exists(providerID[d])
    <3>1. \A d \in Claim : providerID[d] # None =>
            providerID[d] \in NodeId \cup Foreign /\ providerID[d] # n
      BY <1>a, <2>1 DEF IInv, NamedWereCreated, TypeOK
    <3> QED BY <1>a, <2>1, <2>2, <3>1 DEF Exists, TypeOK, claims
  <2>6. LaunchOnce' /\ NotFoundIsMissing'
    BY <1>a, <2>2, <2>5 DEF IInv, LaunchOnce, NotFoundIsMissing, TypeOK, claims, Exists
  <2>7. gcClaims \subseteq Claim /\ gone \subseteq Claim /\ collected \subseteq Claim
    BY <1>a DEF TypeOK
  <2>8. UnlistedIsMissing' /\ CollectedHaveNode'
    BY <2>2, <2>5, <2>7 DEF IInv, UnlistedIsMissing, CollectedHaveNode, claims, gc
  <2>9. NoNodeLeftBehind' /\ CollectedForCause'
    BY <2>2, <2>5, <2>7, <2>8
       DEF IInv, NoNodeLeftBehind, CollectedForCause, CollectedHaveNode, claims, gc
  <2> QED BY <2>3, <2>4, <2>6, <2>8, <2>9 DEF IInv
<1>3. ASSUME NEW c \in Claim, CreateFails(c) PROVE IInv'
  <2> DEFINE Cut == pc' = [pc EXCEPT ![c] = "idle"] /\ UNCHANGED <<claims, reply, gc>>
  <2>1. Cut /\ pc[c] = "creating"
    BY <1>3 DEF CreateFails
  <2>2. CASE UNCHANGED cloud
    BY <2>1, <2>2, CallStep DEF IInv, LaunchOnce
  <2>3. CASE \E n \in NodeId : cloud[n] = "free" /\ cloud' = [cloud EXCEPT ![n] = "running"]
    <3>1. PICK n \in NodeId : cloud[n] = "free" /\ cloud' = [cloud EXCEPT ![n] = "running"]
      BY <2>3
    <3>2. TypeOK'
      BY <1>a, <2>1, <3>1 DEF TypeOK, claims, gc
    <3>3. \A d \in Claim : providerID[d] # None =>
            /\ cloud'[providerID[d]] # "free"
            /\ Exists(providerID[d])' = Exists(providerID[d])
      <4>1. \A d \in Claim : providerID[d] # None =>
              /\ providerID[d] \in NodeId \cup Foreign /\ providerID[d] # n
              /\ cloud[providerID[d]] # "free"
        BY <1>a, <3>1 DEF IInv, NamedWereCreated, TypeOK
      <4> QED BY <1>a, <2>1, <3>1, <4>1 DEF Exists, TypeOK, claims
    <3>4. \A d \in Claim : reply[d] # None => cloud'[reply[d]] # "free"
      BY <1>a, <3>1 DEF IInv, NamedWereCreated, TypeOK
    <3>5. NamedWereCreated'
      BY <2>1, <3>3, <3>4 DEF NamedWereCreated, claims
    <3>6. LaunchOnce' /\ NotFoundIsMissing'
      BY <1>a, <2>1, <3>3 DEF IInv, LaunchOnce, NotFoundIsMissing, TypeOK, claims, Exists
    <3>7. gcClaims \subseteq Claim /\ gone \subseteq Claim /\ collected \subseteq Claim
      BY <1>a DEF TypeOK
    <3>8. UnlistedIsMissing' /\ CollectedHaveNode'
      BY <2>1, <3>3, <3>7 DEF IInv, UnlistedIsMissing, CollectedHaveNode, claims, gc
    <3>9. NoNodeLeftBehind' /\ CollectedForCause'
      BY <2>1, <3>3, <3>7, <3>8
         DEF IInv, NoNodeLeftBehind, CollectedForCause, CollectedHaveNode, claims, gc
    <3> QED BY <3>2, <3>5, <3>6, <3>8, <3>9 DEF IInv
  <2> QED BY <1>3, <2>2, <2>3 DEF CreateFails
<1>4. ASSUME NEW c \in Claim, LaunchStored(c) PROVE IInv'
  <2>1. /\ pc[c] = "created"
        /\ providerID' = [providerID EXCEPT ![c] = reply[c]]
        /\ reply' = [reply EXCEPT ![c] = None]
        /\ pc' = [pc EXCEPT ![c] = "idle"]
        /\ UNCHANGED <<cloud, deleting, gone, gc>>
    BY <1>4 DEF LaunchStored
  <2>2. reply[c] \in NodeId /\ providerID[c] = None /\ c \notin gone
    BY <1>a, <2>1 DEF IInv, TypeOK, LaunchOnce
  <2>3. c \notin gcClaims /\ c \notin collected
    BY <2>2 DEF IInv, UnlistedIsMissing, CollectedHaveNode
  <2>4. TypeOK'
    BY <1>a, <2>1, <2>2, IdAssumption DEF TypeOK, gc
  <2>5. \A d \in Claim : d # c => providerID'[d] = providerID[d] /\ pc'[d] = pc[d] /\ reply'[d] = reply[d]
    BY <1>a, <2>1 DEF TypeOK
  <2>6. providerID'[c] = reply[c] /\ reply'[c] = None /\ pc'[c] = "idle"
    BY <1>a, <2>1 DEF TypeOK
  <2>7. gcClaims \subseteq Claim /\ gone \subseteq Claim /\ collected \subseteq Claim
    BY <1>a DEF TypeOK
  <2>8. NamedWereCreated'
    BY <2>1, <2>2, <2>5, <2>6, IdAssumption DEF IInv, NamedWereCreated
  <2>9. LaunchOnce' /\ NotFoundIsMissing'
    BY <1>e, <2>1, <2>5, <2>6 DEF IInv, LaunchOnce, NotFoundIsMissing
  <2>10. UnlistedIsMissing' /\ CollectedHaveNode'
    BY <1>e, <2>1, <2>3, <2>5, <2>7 DEF IInv, UnlistedIsMissing, CollectedHaveNode, gc
  <2>11. NoNodeLeftBehind' /\ CollectedForCause'
    BY <1>e, <2>1, <2>2, <2>3, <2>5, <2>7 DEF IInv, NoNodeLeftBehind, CollectedForCause, gc
  <2> QED BY <2>4, <2>8, <2>9, <2>10, <2>11 DEF IInv
<1>s. ASSUME NEW c \in Claim, Terminating(c), NEW status \in Statuses, MayAnswer(providerID[c], status),
             pc' = [pc EXCEPT ![c] = Outcome(status)], UNCHANGED <<cloud, claims, reply, gc>>
      PROVE  IInv'
  <2>1. Outcome(status) \in {"notFound", "waiting"}
        /\ (Outcome(status) = "notFound" => ~Exists(providerID[c]))
    BY <1>s DEF Outcome, IsNotFound, MayAnswer
  <2>2. c \in deleting /\ c \notin gone /\ providerID[c] # None
    BY <1>s DEF Terminating
  <2> QED BY <1>s, <2>1, <2>2, CallStep
<1>5. ASSUME NEW c \in Claim, Delete(c) PROVE IInv'
  <2>1. Terminating(c) /\ UNCHANGED <<claims, reply, gc>>
    BY <1>5 DEF Delete
  <2>2. CASE /\ Exists(providerID[c])
             /\ cloud' = [cloud EXCEPT ![providerID[c]] = "deleting"]
             /\ pc' = [pc EXCEPT ![c] = "waiting"]
    <3>1. providerID[c] \in NodeId /\ c \in deleting /\ c \notin gone
      BY <1>a, <2>1 DEF Terminating, TypeOK
    <3>2. TypeOK'
      BY <1>a, <2>1, <2>2, <3>1, IdAssumption DEF TypeOK, claims, gc
    <3>3. \A n \in NodeId \cup Foreign :
            (cloud'[n] = "free" <=> cloud[n] = "free") /\ Exists(n)' = Exists(n)
      BY <1>a, <2>2, <3>1 DEF TypeOK, Exists
    <3>4. \A d \in Claim : /\ providerID[d] \in NodeId \cup {None} /\ reply[d] \in NodeId \cup {None}
                           /\ Exists(providerID[d])' = Exists(providerID[d])
      BY <1>a, <2>1, <3>3 DEF TypeOK, Exists, claims
    <3>5. NamedWereCreated'
      BY <2>1, <3>3, <3>4 DEF IInv, NamedWereCreated, claims
    <3>6. LaunchOnce' /\ NotFoundIsMissing'
      BY <1>a, <2>1, <2>2, <3>1, <3>4 DEF IInv, LaunchOnce, NotFoundIsMissing, TypeOK, claims
    <3>7. gcClaims \subseteq Claim /\ gone \subseteq Claim /\ collected \subseteq Claim
      BY <1>a DEF TypeOK
    <3>8. UnlistedIsMissing' /\ CollectedHaveNode' /\ NoNodeLeftBehind' /\ CollectedForCause'
      BY <2>1, <3>4, <3>7
         DEF IInv, UnlistedIsMissing, CollectedHaveNode, NoNodeLeftBehind, CollectedForCause,
             claims, gc
    <3> QED BY <3>2, <3>5, <3>6, <3>8 DEF IInv
  <2>3. CASE \E status \in Statuses :
               /\ MayAnswer(providerID[c], status)
               /\ pc' = [pc EXCEPT ![c] = Outcome(status)]
               /\ UNCHANGED cloud
    BY <1>s, <2>1, <2>3
  <2> QED BY <1>5, <2>2, <2>3 DEF Delete
<1>6. ASSUME NEW c \in Claim, Get(c) PROVE IInv'
  <2>1. Terminating(c) /\ UNCHANGED <<cloud, claims, reply, gc>>
    BY <1>6 DEF Get
  <2>2. CASE pc' = [pc EXCEPT ![c] = "waiting"]
    BY <2>1, <2>2, CallStep DEF Terminating
  <2>3. CASE \E status \in Statuses :
               MayAnswer(providerID[c], status) /\ pc' = [pc EXCEPT ![c] = Outcome(status)]
    BY <1>s, <2>1, <2>3
  <2> QED BY <1>6, <2>2, <2>3 DEF Get
<1>7. ASSUME NEW c \in Claim, FinalizerRemoved(c) PROVE IInv'
  <2>1. /\ c \in deleting \ gone
        /\ pc[c] = "notFound" \/ (pc[c] = "idle" /\ providerID[c] = None)
        /\ gone' = gone \cup {c}
        /\ pc' = [pc EXCEPT ![c] = "idle"]
        /\ UNCHANGED <<cloud, providerID, deleting, reply, gc>>
    BY <1>7 DEF FinalizerRemoved
  <2>2. TypeOK'
    BY <1>a, <2>1 DEF TypeOK, gc
  <2>3. NoNodeLeftBehind'
    BY <1>e, <2>1 DEF IInv, NoNodeLeftBehind, NotFoundIsMissing
  <2>4. LaunchOnce' /\ NotFoundIsMissing'
    BY <1>a, <1>e, <2>1 DEF IInv, LaunchOnce, NotFoundIsMissing, TypeOK
  <2>5. UnlistedIsMissing' /\ CollectedHaveNode' /\ CollectedForCause' /\ NamedWereCreated'
    BY <1>e, <2>1
       DEF IInv, UnlistedIsMissing, CollectedHaveNode, CollectedForCause, NamedWereCreated, gc
  <2> QED BY <2>2, <2>3, <2>4, <2>5 DEF IInv
<1>8. ASSUME NEW c \in Claim, GCDeletes(c) PROVE IInv'
  <2>1. c \in gcClaims /\ providerID[c] # None /\ ~Exists(providerID[c])
    BY <1>8 DEF GCDeletes, IInv, UnlistedIsMissing
  <2>2. TypeOK'
    BY <1>8, <1>a DEF GCDeletes, TypeOK, calls
  <2>3. CollectedHaveNode' /\ CollectedForCause'
    BY <1>8, <1>e, <2>1 DEF GCDeletes, IInv, CollectedHaveNode, CollectedForCause
  <2> QED
    BY <1>8, <1>e, <2>2, <2>3
       DEF GCDeletes, calls, IInv, NamedWereCreated, LaunchOnce, NotFoundIsMissing,
           UnlistedIsMissing, NoNodeLeftBehind
<1>9. ASSUME NEW c \in Claim, ClaimDeleted(c) PROVE IInv'
  <2>1. TypeOK'
    BY <1>9, <1>a DEF ClaimDeleted, TypeOK, calls, gc
  <2> QED
    BY <1>9, <1>e, <2>1
       DEF ClaimDeleted, calls, gc, IInv, NamedWereCreated, LaunchOnce, NotFoundIsMissing,
           UnlistedIsMissing, CollectedHaveNode, NoNodeLeftBehind, CollectedForCause
<1>10. CASE GCReads
  <2>1. TypeOK'
    BY <1>10, <1>a DEF GCReads, TypeOK, claims, calls
  <2>2. UnlistedIsMissing'
    BY <1>10 DEF GCReads, UnlistedIsMissing, claims
  <2> QED
    BY <1>10, <1>e, <2>1, <2>2
       DEF GCReads, claims, calls, IInv, NamedWereCreated, LaunchOnce, NotFoundIsMissing,
           CollectedHaveNode, NoNodeLeftBehind, CollectedForCause
<1>11. CASE GCLists
  <2>1. TypeOK'
    BY <1>11, <1>a DEF GCLists, List, TypeOK, claims, calls
  <2>2. \A c \in gcClaims : providerID[c] \in NodeId \cup {None}
    BY <1>a DEF TypeOK
  <2>3. UnlistedIsMissing'
    BY <1>11, <1>e, <2>2 DEF GCLists, List, IInv, UnlistedIsMissing, claims, Exists
  <2> QED
    BY <1>11, <1>e, <2>1, <2>3
       DEF GCLists, claims, calls, IInv, NamedWereCreated, LaunchOnce, NotFoundIsMissing,
           CollectedHaveNode, NoNodeLeftBehind, CollectedForCause
<1>12. CASE GCEnds
  <2>1. TypeOK'
    BY <1>12, <1>a DEF GCEnds, TypeOK, claims, calls
  <2> QED
    BY <1>12, <1>e, <2>1
       DEF GCEnds, claims, calls, IInv, NamedWereCreated, LaunchOnce, NotFoundIsMissing,
           UnlistedIsMissing, CollectedHaveNode, NoNodeLeftBehind, CollectedForCause
<1>13. ASSUME NEW n \in NodeId \cup Foreign, NodeDeleted(n) PROVE IInv'
  BY <1>13, <1>a, CloudStep DEF NodeDeleted, TypeOK, Exists
<1>14. ASSUME NEW n \in NodeId \cup Foreign, NodeRemoved(n) PROVE IInv'
  BY <1>14, <1>a, CloudStep DEF NodeRemoved, TypeOK, Exists
<1>15. CASE Restart
  <2>1. TypeOK'
    BY <1>15, <1>a DEF Restart, TypeOK, claims
  <2> QED
    BY <1>15, <1>e, <2>1
       DEF Restart, claims, IInv, NamedWereCreated, LaunchOnce, NotFoundIsMissing,
           UnlistedIsMissing, CollectedHaveNode, NoNodeLeftBehind, CollectedForCause
<1>16. CASE UNCHANGED vars
  BY <1>16, <1>e
     DEF vars, claims, calls, gc, IInv, TypeOK, NamedWereCreated, LaunchOnce, NotFoundIsMissing,
         UnlistedIsMissing, CollectedHaveNode, NoNodeLeftBehind, CollectedForCause
<1> QED
  BY <1>1, <1>2, <1>3, <1>4, <1>5, <1>6, <1>7, <1>8, <1>9, <1>10, <1>11, <1>12, <1>13, <1>14,
     <1>15, <1>16 DEF Next

-----------------------------------------------------------------------------

\* The invariant holds in every reachable state.
THEOREM Invariance == Spec => []IInv
<1>1. Init => IInv
  BY InitInv
<1>2. IInv /\ [Next]_vars => IInv'
  BY StepInv
<1> QED BY <1>1, <1>2, PTL DEF Spec

\* Variables have their types.
THEOREM TypeCorrect == Spec => []TypeOK
<1>1. IInv => TypeOK
  BY DEF IInv
<1> QED BY <1>1, Invariance, PTL

\* A NodeClaim that knows its node goes after it.
THEOREM LeftBehind == Spec => []NoNodeLeftBehind
<1>1. IInv => NoNodeLeftBehind
  BY DEF IInv
<1> QED BY <1>1, Invariance, PTL

\* What the garbage collector deletes has lost its node.
THEOREM ForCause == Spec => []CollectedForCause
<1>1. IInv => CollectedForCause
  BY DEF IInv
<1> QED BY <1>1, Invariance, PTL
=============================================================================
