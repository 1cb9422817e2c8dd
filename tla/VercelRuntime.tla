---------------------------- MODULE VercelRuntime ----------------------------
(***************************************************************************)
(* The serverless runtime (vercel_runtime/): durable workflows in a warm    *)
(* process.  A bootstrap request per deployment starts one workflow for     *)
(* Telegram's updates and one that runs a monitor cycle every three         *)
(* minutes; both run the commit of their generation, which the process      *)
(* downloads, puts on sys.path and imports.  Old generations are not told   *)
(* to stop: a monitor looks in the database whether it is still current.    *)
(*                                                                          *)
(* One process serves every workflow here; a step yields at its awaits.     *)
(* The platform runs every workflow that is due.                            *)
(***************************************************************************)
EXTENDS Naturals, FiniteSets, Sequences

CONSTANTS
  None, Requests, Updates,
  Generation,    \* the commit each request deploys
  Url,           \* the address each request was sent to
  Slow,          \* the updates that go to a workflow of their own
  CyclesPerRun   \* monitor cycles before a workflow chains to the next

\* Of the constants; an instance assumes it.
RequestsDeploy == None \notin Requests \cup Updates /\ Slow \subseteq Updates

VARIABLES
  record,      \* system_status "vercel_runtime"
  boot,        \* how far each request is
  monitor,     \* the monitor workflow each request started
  cycles,      \* cycles of its current run
  telegram,    \* the Telegram workflow each request started
  webhook,     \* the request whose workflow set the webhook last
  inbox,       \* the events a Telegram workflow has been given
  update,      \* where each update is
  by,          \* the request whose workflow has it
  loaded,      \* _loaded_generation
  path,        \* the commits on sys.path, first one first
  imported,    \* the commit whose modules are imported
  lock,        \* _runtime_lock
  application, \* _telegram_application, by the update that had it built
  built,       \* the commit of the handlers of each application, None: none
  closed,      \* the applications shut down
  torn,        \* the applications whose shutdown failed
  using        \* the application each update was handed to

bootstraps == <<record, boot>>
monitors == <<monitor, cycles>>
ingress == <<telegram, webhook, inbox>>
process == <<loaded, path, imported>>
runtime == <<lock, application, built, closed, torn, using>>
vars == <<bootstraps, monitors, ingress, update, by, process, runtime>>

Commits == {Generation[r] : r \in Requests}
Stages == {"unsent", "inspected", "marked", "telegram started", "started", "failing",
           "already running", "running", "failed"}
TypeOK ==
  /\ record \in [generation : Commits \cup {None},
                 state : {"bootstrapping", "running", "failed", None},
                 url : {Url[r] : r \in Requests} \cup {None}]
  /\ boot \in [Requests -> Stages]
  /\ monitor \in [Requests -> {"none", "due", "loaded", "current", "asleep", "over"}]
  /\ cycles \in [Requests -> 0..CyclesPerRun]
  /\ telegram \in [Requests -> {"none", "configuring", "hooked", "waiting"}]
  /\ webhook \in Requests \cup {None} /\ inbox \in [Requests -> Seq(Updates)]
  /\ update \in [Updates -> {"sent", "accepted", "begun", "connecting", "ready", "handled",
                             "dropped"}]
  /\ by \in [Updates -> Requests \cup {None}]
  /\ loaded \in Commits \cup {None} /\ imported \in Commits \cup {None} /\ path \in Seq(Commits)
  /\ lock \in Updates \cup {None} /\ application \in Updates \cup {None}
  /\ built \in [Updates -> Commits \cup {None}]
  /\ closed \subseteq Updates /\ torn \subseteq Updates
  /\ using \in [Updates -> Updates \cup {None}]

Init ==
  /\ record = [generation |-> None, state |-> None, url |-> None]
  /\ boot = [r \in Requests |-> "unsent"]
  /\ monitor = [r \in Requests |-> "none"] /\ cycles = [r \in Requests |-> 0]
  /\ telegram = [r \in Requests |-> "none"] /\ webhook = None
  /\ inbox = [r \in Requests |-> <<>>]
  /\ update = [u \in Updates |-> "sent"] /\ by = [u \in Updates |-> None]
  /\ loaded = None /\ path = <<>> /\ imported = None
  /\ lock = None /\ application = None /\ built = [u \in Updates |-> None]
  /\ closed = {} /\ torn = {} /\ using = [u \in Updates |-> None]

----------------------------------------------------------------------------
(* /bootstrap *)

To(r, stage) == boot' = [boot EXCEPT ![r] = stage]
Marked(r, state) == [generation |-> Generation[r], state |-> state, url |-> Url[r]]
Mark(r, state) == record' = Marked(r, state)

(* The same commit at another address is deployed again.                    *)
Inspect(r) ==
  /\ boot[r] = "unsent"
  /\ To(r, IF record = Marked(r, "running") THEN "already running" ELSE "inspected")
  /\ UNCHANGED <<record, monitors, ingress, update, by, process, runtime>>

Announce(r) ==
  /\ boot[r] = "inspected" /\ To(r, "marked") /\ Mark(r, "bootstrapping")
  /\ UNCHANGED <<monitors, ingress, update, by, process, runtime>>

(* Either start can fail; then the record says so, and what was started     *)
(* goes on.                                                                 *)
StartTelegram(r) ==
  /\ boot[r] = "marked"
  /\ \/ /\ To(r, "telegram started")
        /\ telegram' = [telegram EXCEPT ![r] = "configuring"]
     \/ To(r, "failing") /\ UNCHANGED telegram
  /\ UNCHANGED <<record, monitors, webhook, inbox, update, by, process, runtime>>

StartMonitor(r) ==
  /\ boot[r] = "telegram started"
  /\ \/ To(r, "started") /\ monitor' = [monitor EXCEPT ![r] = "due"]
     \/ To(r, "failing") /\ UNCHANGED monitor
  /\ UNCHANGED <<record, cycles, ingress, update, by, process, runtime>>

Finish(r) ==
  /\ \/ boot[r] = "started" /\ To(r, "running") /\ Mark(r, "running")
     \/ boot[r] = "failing" /\ To(r, "failed") /\ Mark(r, "failed")
  /\ UNCHANGED <<monitors, ingress, update, by, process, runtime>>

Bootstrap(r) == Inspect(r) \/ Announce(r) \/ StartTelegram(r) \/ StartMonitor(r) \/ Finish(r)

----------------------------------------------------------------------------
(* _download_source: a commit that is already on sys.path stays where it is.*)
Load(g) ==
  LET first == IF \E i \in DOMAIN path : path[i] = g THEN path ELSE <<g>> \o path
  IN /\ loaded' = g /\ path' = IF loaded = g THEN path ELSE first
     /\ imported' = IF loaded = g THEN imported ELSE Head(first)

(* monitor_cycle_step_v33, up to its first await, its look at the record    *)
(* and its cycle.                                                           *)
Step(r, from, to) == monitor[r] = from /\ monitor' = [monitor EXCEPT ![r] = to]
Current(r) == record.generation = Generation[r] /\ record.state = "running"

BeginCycle(r) ==
  /\ Step(r, "due", "loaded") /\ Load(Generation[r])
  /\ UNCHANGED <<bootstraps, cycles, ingress, update, by, runtime>>
Check(r) ==
  /\ Step(r, "loaded", IF Current(r) THEN "current" ELSE "over")
  /\ UNCHANGED <<bootstraps, cycles, ingress, update, by, process, runtime>>
Cycle(r) ==
  /\ Step(r, "current", "asleep") /\ cycles' = [cycles EXCEPT ![r] = @ + 1]
  /\ UNCHANGED <<bootstraps, ingress, update, by, process, runtime>>
(* After three minutes: the next cycle, or a new workflow for the next 480. *)
Wake(r) ==
  /\ Step(r, "asleep", "due")
  /\ cycles' = [cycles EXCEPT ![r] = IF @ = CyclesPerRun THEN 0 ELSE @]
  /\ UNCHANGED <<bootstraps, ingress, update, by, process, runtime>>
Monitor(r) == BeginCycle(r) \/ Check(r) \/ Cycle(r) \/ Wake(r)

----------------------------------------------------------------------------
(* configure_telegram_v33: the webhook first, the runtime's code after it.  *)
SetWebhook(r) ==
  /\ telegram[r] = "configuring" /\ telegram' = [telegram EXCEPT ![r] = "hooked"]
  /\ webhook' = r
  /\ UNCHANGED <<bootstraps, monitors, inbox, update, by, process, runtime>>
Publish(r) ==
  /\ telegram[r] = "hooked" /\ telegram' = [telegram EXCEPT ![r] = "waiting"]
  /\ Load(Generation[r])
  /\ UNCHANGED <<bootstraps, monitors, webhook, inbox, update, by, runtime>>

(* telegram_ingress: an update nobody waits for is answered 503, and        *)
(* Telegram sends it again.                                                 *)
Accept(u) ==
  /\ update[u] = "sent" /\ webhook # None
  /\ \E r \in Requests :
       /\ Generation[r] = Generation[webhook] /\ telegram[r] = "waiting"
       /\ inbox' = [inbox EXCEPT ![r] = Append(@, u)]
       /\ update' = [update EXCEPT ![u] = "accepted"] /\ by' = [by EXCEPT ![u] = r]
  /\ UNCHANGED <<bootstraps, monitors, telegram, webhook, process, runtime>>

(* The events in turn: an ordinary one when the one before it is done.      *)
Busy(r) == \E u \in Updates \ Slow : by[u] = r /\ update[u] \in {"begun", "connecting", "ready"}
Begin(r) ==
  /\ inbox[r] # <<>> /\ ~Busy(r)
  /\ update' = [update EXCEPT ![Head(inbox[r])] = "begun"]
  /\ inbox' = [inbox EXCEPT ![r] = Tail(@)]
  /\ UNCHANGED <<bootstraps, monitors, telegram, webhook, by, process, runtime>>

Commit(u) == Generation[by[u]]
(* _ensure_telegram_runtime: under the lock another generation's            *)
(* application is shut down, the commit is loaded, the database connected.  *)
(* A shutdown that fails is logged, and the application is let go of alike. *)
Outdated(u) == application # None /\ Commit(application) # Commit(u)
Replaced(u) ==
  IF Outdated(u)
  THEN /\ application' = None
       /\ \/ closed' = closed \cup {application} /\ UNCHANGED torn
          \/ torn' = torn \cup {application} /\ UNCHANGED closed
  ELSE UNCHANGED <<closed, torn, application>>

(* The download can fail, which drops the update and frees the lock.        *)
Prepared(u) ==
  \/ /\ lock' = u /\ update' = [update EXCEPT ![u] = "connecting"] /\ Load(Commit(u))
  \/ /\ update' = [update EXCEPT ![u] = "dropped"] /\ UNCHANGED <<lock, process>>

\* Mutant: without the lock.
EnsureUnlocked(u) ==
  /\ update[u] = "begun" /\ Replaced(u) /\ Prepared(u)
  /\ UNCHANGED <<bootstraps, monitors, ingress, by, built, using>>
Ensure(u) ==
  /\ update[u] = "begun" /\ lock = None /\ Replaced(u) /\ Prepared(u)
  /\ UNCHANGED <<bootstraps, monitors, ingress, by, built, using>>

(* After the await: the application there is, or one of the handlers now    *)
(* imported.  Connecting and initialising can fail, which drops the update. *)
Present(u) == application # None /\ Commit(application) = Commit(u)
Build(u) ==
  /\ update[u] = "connecting" /\ lock' = None
  /\ \/ /\ update' = [update EXCEPT ![u] = "ready"]
        /\ IF Present(u)
           THEN using' = [using EXCEPT ![u] = application] /\ UNCHANGED <<application, built>>
           ELSE /\ application' = u /\ built' = [built EXCEPT ![u] = imported]
                /\ using' = [using EXCEPT ![u] = u]
     \/ /\ update' = [update EXCEPT ![u] = "dropped"]
        /\ UNCHANGED <<application, built, using>>
  /\ UNCHANGED <<bootstraps, monitors, ingress, by, process, closed, torn>>

(* process_update: an application shut down meanwhile raises, and the       *)
(* update is gone; one whose shutdown failed may do either.                 *)
Handle(u) ==
  /\ update[u] = "ready"
  /\ \E end \in {"handled", "dropped"} :
       /\ update' = [update EXCEPT ![u] = end]
       /\ end = "handled" => using[u] \notin closed
       /\ end = "dropped" => using[u] \in closed \cup torn
  /\ UNCHANGED <<bootstraps, monitors, ingress, by, process, runtime>>

Telegram == \/ \E r \in Requests : SetWebhook(r) \/ Publish(r) \/ Begin(r)
            \/ \E u \in Updates : Ensure(u) \/ Build(u) \/ Handle(u)

Next ==
  \/ \E r \in Requests : Bootstrap(r) \/ Monitor(r)
  \/ \E u \in Updates : Accept(u)
  \/ Telegram

Spec ==
  /\ Init /\ [][Next]_vars
  /\ \A r \in Requests : WF_vars(Monitor(r))
  /\ WF_vars(Telegram)

----------------------------------------------------------------------------
(* However two deployments, failed attempts and retries of either            *)
(* follow each other, the monitors of a generation that is replaced for     *)
(* good end: a chat is not watched, and alerted, by two releases            *)
(* (_runtime_is_current).                                                   *)
SupersededEnds ==
  \A r \in Requests :
    []<>(record.generation # Generation[r] => monitor[r] \in {"none", "over"})

(* Two steps of different generations that want an application at the same  *)
(* time, with downloads, connections and starts that fail, leave one alive, *)
(* not two with one bot token (_runtime_lock, and the shutdown of the other *)
(* one before a new one is built).  One whose shutdown raises is forgotten  *)
(* without another attempt (_shutdown_cached_telegram_runtime), may live on *)
(* and is not counted.                                                      *)
OneApplication == Cardinality({u \in Updates : built[u] # None} \ (closed \cup torn)) <= 1
=============================================================================
