-------------------------- MODULE VercelRuntimeProofs --------------------------
(***************************************************************************)
(* The safety of the serverless runtime, for every set of deployments and   *)
(* updates.  RequestsDeploy is the assumption of an instance and therefore  *)
(* a hypothesis here.                                                       *)
(***************************************************************************)
EXTENDS VercelRuntime, FiniteSetTheorems, SequenceTheorems, TLAPS

-----------------------------------------------------------------------------
(* The inductive invariant.                                                 *)

\* The types of the variables the handover of an application reads.
HandoverTypes ==
  /\ update \in [Updates -> {"sent", "accepted", "begun", "connecting", "ready", "handled",
                             "dropped"}]
  /\ by \in [Updates -> Requests \cup {None}]
  /\ inbox \in [Requests -> Seq(Updates)]
  /\ lock \in Updates \cup {None} /\ application \in Updates \cup {None}
  /\ DOMAIN built = Updates

\* What waits in an inbox was accepted for its request and waits there once.
Waits(r) ==
  /\ \A i \in DOMAIN inbox[r] : update[inbox[r][i]] = "accepted" /\ by[inbox[r][i]] = r
  /\ \A i, j \in DOMAIN inbox[r] : inbox[r][i] = inbox[r][j] => i = j
Waiting == \A r \in Requests : Waits(r)

\* The lock is held by the one update that connects.
LockHeld == \A u \in Updates : update[u] = "connecting" <=> lock = u

\* While an update connects, an application there is runs its commit.
SameCommit ==
  \A u \in Updates :
    update[u] = "connecting" /\ application # None => Commit(application) = Commit(u)

\* The application was built by an update whose request is known for good.
Settled == application # None => update[application] # "sent"

\* No application but the present one is alive, unless its shutdown failed.
Alive == {u \in Updates : built[u] # None} \ (closed \cup torn)
OnlyPresent == \A u \in Updates : built[u] # None => u \in closed \cup torn \/ u = application

Handover == HandoverTypes /\ Waiting /\ LockHeld /\ SameCommit /\ Settled /\ OnlyPresent

-----------------------------------------------------------------------------
(* The steps.                                                               *)

LEMMA HandoverInit ==
    ASSUME RequestsDeploy, Init
    PROVE  Handover
<1>1. inbox \in [Requests -> Seq(Updates)] /\ \A r \in Requests : inbox[r] = <<>>
  BY DEF Init
<1>2. Waiting
  BY <1>1 DEF Waiting, Waits
<1>. QED
  BY <1>1, <1>2 DEF Init, RequestsDeploy, Handover, HandoverTypes, LockHeld, SameCommit,
                    Settled, OnlyPresent

\* A step of which the handover reads nothing.
LEMMA Elsewhere ==
    ASSUME Handover, UNCHANGED <<inbox, update, by, runtime>>
    PROVE  Handover'
  BY DEF Handover, HandoverTypes, Waiting, Waits, LockHeld, SameCommit, Settled, OnlyPresent,
         Commit, runtime

\* The stages an inbox does not hold can be left or entered without touching it.
LEMMA WaitingKept ==
    ASSUME HandoverTypes, Waiting, NEW u \in Updates, update[u] # "accepted",
           inbox' = inbox, by' = by, \A v \in Updates \ {u} : update'[v] = update[v]
    PROVE  Waiting'
<1>. SUFFICES ASSUME NEW r \in Requests
              PROVE  Waits(r)'
  BY DEF Waiting
<1>1. Waits(r)
  BY DEF Waiting
<1>2. \A i \in DOMAIN inbox[r] : inbox[r][i] \in Updates
  BY DEF HandoverTypes
<1>. QED  BY <1>1, <1>2 DEF Waits

LEMMA AcceptStep ==
    ASSUME RequestsDeploy, Handover, NEW u \in Updates, Accept(u)
    PROVE  Handover'
<1>. USE DEF Handover, HandoverTypes
<1>1. PICK r \in Requests :
        /\ inbox' = [inbox EXCEPT ![r] = Append(@, u)]
        /\ update' = [update EXCEPT ![u] = "accepted"] /\ by' = [by EXCEPT ![u] = r]
  BY DEF Accept
<1>2. update[u] = "sent" /\ UNCHANGED runtime
  BY DEF Accept
<1>3. HandoverTypes'
  <2>1. inbox' \in [Requests -> Seq(Updates)]
    BY <1>1
  <2>. QED  BY <1>1, <1>2, <2>1 DEF runtime
<1>4. Waiting'
  <2>. SUFFICES ASSUME NEW s \in Requests
                PROVE  Waits(s)'
    BY DEF Waiting
  <2>1. Waits(s) /\ inbox[s] \in Seq(Updates)
    BY DEF Waiting
  <2>2. \A i \in DOMAIN inbox[s] : inbox[s][i] \in Updates /\ inbox[s][i] # u
    BY <1>2, <2>1 DEF Waits
  <2>3. CASE s # r
    BY <1>1, <2>1, <2>2, <2>3 DEF Waits
  <2>4. CASE s = r
    <3>1. inbox'[s] = Append(inbox[s], u)
      BY <1>1, <2>4
    <3>2. /\ Len(inbox'[s]) = Len(inbox[s]) + 1 /\ Len(inbox[s]) \in Nat
          /\ DOMAIN inbox[s] = 1..Len(inbox[s]) /\ DOMAIN (inbox'[s]) = 1..Len(inbox'[s])
          /\ \A i \in 1..Len(inbox[s]) : inbox'[s][i] = inbox[s][i]
          /\ inbox'[s][Len(inbox[s]) + 1] = u
      BY <2>1, <3>1
    <3>3. \A i \in DOMAIN (inbox'[s]) : i \in DOMAIN inbox[s] \/ i = Len(inbox[s]) + 1
      BY <3>2
    <3>4. update'[u] = "accepted" /\ by'[u] = s
          /\ \A v \in Updates \ {u} : update'[v] = update[v] /\ by'[v] = by[v]
      BY <1>1, <2>4
    <3>5. ASSUME NEW i \in DOMAIN (inbox'[s])
          PROVE  update'[inbox'[s][i]] = "accepted" /\ by'[inbox'[s][i]] = s
      <4>1. CASE i = Len(inbox[s]) + 1
        BY <3>2, <3>4, <4>1
      <4>2. CASE i \in DOMAIN inbox[s]
        BY <2>1, <2>2, <3>2, <3>4, <4>2 DEF Waits
      <4>. QED  BY <3>3, <4>1, <4>2
    <3>6. ASSUME NEW i \in DOMAIN (inbox'[s]), NEW j \in DOMAIN (inbox'[s]),
                 inbox'[s][i] = inbox'[s][j]
          PROVE  i = j
      <4>1. CASE i \in DOMAIN inbox[s] /\ j \in DOMAIN inbox[s]
        BY <2>1, <3>2, <3>6, <4>1 DEF Waits
      <4>2. CASE i = Len(inbox[s]) + 1
        BY <2>2, <3>2, <3>3, <3>6, <4>2
      <4>3. CASE j = Len(inbox[s]) + 1
        BY <2>2, <3>2, <3>3, <3>6, <4>3
      <4>. QED  BY <3>3, <4>1, <4>2, <4>3
    <3>. QED  BY <3>5, <3>6 DEF Waits
  <2>. QED  BY <2>3, <2>4
<1>5. LockHeld' /\ Settled' /\ OnlyPresent'
  BY <1>1, <1>2 DEF LockHeld, Settled, OnlyPresent, runtime
<1>6. SameCommit'
  <2>. SUFFICES ASSUME NEW v \in Updates, update'[v] = "connecting", application' # None
                PROVE  Commit(application)' = Commit(v)'
    BY DEF SameCommit
  <2>1. v # u /\ application # u /\ application \in Updates /\ application # None
    BY <1>1, <1>2 DEF Settled, runtime
  <2>2. update[v] = "connecting" /\ by'[v] = by[v] /\ application' = application
        /\ by'[application] = by[application]
    BY <1>1, <1>2, <2>1 DEF runtime
  <2>. QED  BY <2>1, <2>2 DEF SameCommit, Commit
<1>. QED  BY <1>3, <1>4, <1>5, <1>6

LEMMA BeginStep ==
    ASSUME RequestsDeploy, Handover, NEW r \in Requests, Begin(r)
    PROVE  Handover'
<1>. USE DEF Handover, HandoverTypes
<1>. DEFINE first == Head(inbox[r])
<1>1. /\ inbox[r] # <<>> /\ inbox[r] \in Seq(Updates)
      /\ update' = [update EXCEPT ![first] = "begun"]
      /\ inbox' = [inbox EXCEPT ![r] = Tail(@)]
      /\ by' = by /\ UNCHANGED runtime
  BY DEF Begin
<1>2. /\ Len(inbox[r]) \in Nat \ {0} /\ DOMAIN inbox[r] = 1..Len(inbox[r])
      /\ first = inbox[r][1] /\ first \in Updates /\ Tail(inbox[r]) \in Seq(Updates)
      /\ Len(Tail(inbox[r])) = Len(inbox[r]) - 1
      /\ DOMAIN Tail(inbox[r]) = 1..Len(Tail(inbox[r]))
      /\ \A i \in DOMAIN Tail(inbox[r]) : Tail(inbox[r])[i] = inbox[r][i + 1]
  BY <1>1
<1>3. Waits(r) /\ 1 \in DOMAIN inbox[r]
  BY <1>2 DEF Waiting
<1>4. update[first] = "accepted" /\ by[first] = r
  BY <1>2, <1>3 DEF Waits
<1>. HIDE DEF first
<1>5. HandoverTypes'
  BY <1>1, <1>2 DEF runtime
<1>6. Waiting'
  <2>. SUFFICES ASSUME NEW s \in Requests
                PROVE  Waits(s)'
    BY DEF Waiting
  <2>1. Waits(s) /\ inbox[s] \in Seq(Updates)
    BY DEF Waiting
  <2>2. \A v \in Updates \ {first} : update'[v] = update[v]
    BY <1>1
  <2>3. CASE s # r
    <3>1. inbox'[s] = inbox[s]
      BY <1>1, <2>3
    <3>2. \A i \in DOMAIN inbox[s] : inbox[s][i] \in Updates \ {first}
      BY <1>4, <2>1, <2>3 DEF Waits
    <3>. QED  BY <1>1, <2>1, <2>2, <3>1, <3>2 DEF Waits
  <2>4. CASE s = r
    <3>1. inbox'[s] = Tail(inbox[r])
      BY <1>1, <2>4
    <3>2. \A i \in DOMAIN (inbox'[s]) :
            /\ i + 1 \in DOMAIN inbox[r] /\ i + 1 # 1 /\ i \in Nat
            /\ inbox'[s][i] = inbox[r][i + 1]
      BY <1>2, <3>1
    <3>3. \A i \in DOMAIN (inbox'[s]) : inbox'[s][i] \in Updates \ {first}
      BY <1>1, <1>2, <1>3, <3>2 DEF Waits
    <3>4. ASSUME NEW i \in DOMAIN (inbox'[s])
          PROVE  update'[inbox'[s][i]] = "accepted" /\ by'[inbox'[s][i]] = s
      BY <1>1, <1>3, <2>2, <2>4, <3>2, <3>3 DEF Waits
    <3>5. ASSUME NEW i \in DOMAIN (inbox'[s]), NEW j \in DOMAIN (inbox'[s]),
                 inbox'[s][i] = inbox'[s][j]
          PROVE  i = j
      <4>1. i + 1 = j + 1
        BY <1>3, <3>2, <3>5 DEF Waits
      <4>. QED  BY <3>2, <4>1
    <3>. QED  BY <3>4, <3>5 DEF Waits
  <2>. QED  BY <2>3, <2>4
<1>7. LockHeld' /\ SameCommit' /\ Settled' /\ OnlyPresent'
  BY <1>1, <1>2, <1>4 DEF LockHeld, SameCommit, Settled, OnlyPresent, Commit, runtime
<1>. QED  BY <1>5, <1>6, <1>7

LEMMA EnsureStep ==
    ASSUME RequestsDeploy, Handover, NEW u \in Updates, Ensure(u)
    PROVE  Handover'
<1>. USE DEF Handover, HandoverTypes
<1>1. /\ update[u] = "begun" /\ lock = None
      /\ by' = by /\ inbox' = inbox /\ built' = built
      /\ \/ lock' = u /\ update' = [update EXCEPT ![u] = "connecting"]
         \/ lock' = None /\ update' = [update EXCEPT ![u] = "dropped"]
  BY DEF Ensure, Prepared, ingress
<1>2. /\ \/ /\ application # None /\ Commit(application) # Commit(u) /\ application' = None
            /\ (closed \cup torn)' = closed \cup torn \cup {application}
         \/ /\ application = None \/ Commit(application) = Commit(u)
            /\ closed' = closed /\ torn' = torn /\ application' = application
  BY DEF Ensure, Replaced, Outdated
<1>3. HandoverTypes'
  BY <1>1, <1>2
<1>4. Waiting'
  BY <1>1, WaitingKept
<1>5. LockHeld'
  BY <1>1 DEF LockHeld, RequestsDeploy
<1>6. SameCommit'
  <2>. SUFFICES ASSUME NEW v \in Updates, update'[v] = "connecting", application' # None
                PROVE  Commit(application)' = Commit(v)'
    BY DEF SameCommit
  <2>1. v = u
    BY <1>1 DEF LockHeld, RequestsDeploy
  <2>. QED  BY <1>1, <1>2, <2>1 DEF Commit
<1>7. Settled'
  BY <1>1, <1>2 DEF Settled
<1>8. OnlyPresent'
  BY <1>1, <1>2 DEF OnlyPresent
<1>. QED  BY <1>3, <1>4, <1>5, <1>6, <1>7, <1>8

LEMMA BuildStep ==
    ASSUME RequestsDeploy, Handover, NEW u \in Updates, Build(u)
    PROVE  Handover'
<1>. USE DEF Handover, HandoverTypes
<1>1. /\ update[u] = "connecting" /\ lock' = None
      /\ by' = by /\ inbox' = inbox /\ closed' = closed /\ torn' = torn
  BY DEF Build, ingress
<1>2. \/ /\ update' = [update EXCEPT ![u] = "ready"]
         /\ application' = application /\ built' = built
      \/ /\ application = None \/ Commit(application) # Commit(u)
         /\ update' = [update EXCEPT ![u] = "ready"]
         /\ application' = u /\ built' = [built EXCEPT ![u] = imported]
      \/ /\ update' = [update EXCEPT ![u] = "dropped"]
         /\ application' = application /\ built' = built
  BY DEF Build, Present
<1>3. HandoverTypes'
  BY <1>1, <1>2
<1>4. Waiting'
  BY <1>1, <1>2, WaitingKept
<1>5. LockHeld'
  BY <1>1, <1>2 DEF LockHeld, RequestsDeploy
<1>6. SameCommit'
  BY <1>1, <1>5 DEF SameCommit, LockHeld, RequestsDeploy
<1>7. Settled'
  BY <1>1, <1>2 DEF Settled
<1>8. OnlyPresent'
  <2>1. CASE built' = built /\ application' = application
    BY <1>1, <2>1 DEF OnlyPresent
  <2>2. CASE /\ application = None \/ Commit(application) # Commit(u)
             /\ application' = u /\ built' = [built EXCEPT ![u] = imported]
    <3>1. application = None
      BY <1>1, <2>2 DEF SameCommit
    <3>. QED  BY <1>1, <2>2, <3>1 DEF OnlyPresent, RequestsDeploy
  <2>. QED  BY <1>2, <2>1, <2>2
<1>. QED  BY <1>3, <1>4, <1>5, <1>6, <1>7, <1>8

LEMMA HandleStep ==
    ASSUME RequestsDeploy, Handover, NEW u \in Updates, Handle(u)
    PROVE  Handover'
<1>. USE DEF Handover, HandoverTypes
<1>1. /\ update[u] = "ready" /\ UNCHANGED runtime /\ by' = by /\ inbox' = inbox
      /\ \/ update' = [update EXCEPT ![u] = "handled"]
         \/ update' = [update EXCEPT ![u] = "dropped"]
  BY DEF Handle, ingress
<1>2. Waiting'
  BY <1>1, WaitingKept
<1>. QED
  BY <1>1, <1>2 DEF LockHeld, SameCommit, Settled, OnlyPresent, Commit, runtime

LEMMA HandoverNext ==
    ASSUME RequestsDeploy, Handover, [Next]_vars
    PROVE  Handover'
<1>1. ASSUME NEW r \in Requests, Bootstrap(r)
      PROVE  Handover'
  <2>1. UNCHANGED <<inbox, update, by, runtime>>
    BY <1>1 DEF Bootstrap, Inspect, Announce, StartTelegram, StartMonitor, Finish, ingress
  <2>. QED  BY <2>1, Elsewhere
<1>2. ASSUME NEW r \in Requests, Monitor(r)
      PROVE  Handover'
  <2>1. UNCHANGED <<inbox, update, by, runtime>>
    BY <1>2 DEF Monitor, BeginCycle, Check, Cycle, Wake, ingress
  <2>. QED  BY <2>1, Elsewhere
<1>3. ASSUME NEW r \in Requests, SetWebhook(r) \/ Publish(r)
      PROVE  Handover'
  <2>1. UNCHANGED <<inbox, update, by, runtime>>
    BY <1>3 DEF SetWebhook, Publish
  <2>. QED  BY <2>1, Elsewhere
<1>4. CASE UNCHANGED vars
  <2>1. UNCHANGED <<inbox, update, by, runtime>>
    BY <1>4 DEF vars, ingress
  <2>. QED  BY <2>1, Elsewhere
<1>. QED
  BY <1>1, <1>2, <1>3, <1>4, AcceptStep, BeginStep, EnsureStep, BuildStep, HandleStep
     DEF Next, Telegram

-----------------------------------------------------------------------------
(* The theorem.                                                             *)

\* A set of which every member is one thing has one member at most.
LEMMA AtMostOne ==
    ASSUME NEW S, NEW x, S \subseteq {x}
    PROVE  Cardinality(S) <= 1
<1>1. IsFiniteSet({x}) /\ Cardinality({x}) = 1
  BY FS_Singleton
<1>. QED  BY <1>1, FS_Subset

(* Two steps of different generations that want an application at the same  *)
(* time leave one alive (_runtime_lock, and the shutdown of the other one   *)
(* before a new one is built), save those whose shutdown failed: for every  *)
(* history of deployments, any number of updates, and downloads,            *)
(* connections and starts that fail.                                        *)
THEOREM OneApplicationAlive ==
    RequestsDeploy => (Spec => []OneApplication)
<1>. SUFFICES ASSUME RequestsDeploy
              PROVE  Spec => []OneApplication
  OBVIOUS
<1>1. Init => Handover
  BY HandoverInit
<1>2. Handover /\ [Next]_vars => Handover'
  BY HandoverNext
<1>3. Handover => OneApplication
  <2>. SUFFICES ASSUME Handover
                PROVE  OneApplication
    OBVIOUS
  <2>1. Alive \subseteq {application}
    BY DEF Handover, OnlyPresent, Alive
  <2>. QED  BY <2>1, AtMostOne DEF OneApplication, Alive
<1>. QED  BY <1>1, <1>2, <1>3, PTL DEF Spec
=============================================================================
