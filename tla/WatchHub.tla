------------------------------ MODULE WatchHub ------------------------------
(***************************************************************************)
(* The hub that shares one OS watcher among the consumers of a workspace   *)
(* root (internal/fswatch/hub.go): the topology index and the watchers of  *)
(* the language servers subscribe and leave, the watcher is opened outside *)
(* the hub's mutex, and one that can no longer see every change is         *)
(* replaced while its subscribers keep it.  One root with one set of       *)
(* options is modelled; events and their buffers are not.                  *)
(***************************************************************************)
EXTENDS FiniteSets

CONSTANTS
    Users,      \* goroutines that subscribe, one subscription each at a time
    Watches,    \* addresses a sharedWatch can be allocated at
    NoWatch

HubAssumption == NoWatch \notin Watches

ASSUME HubAssumption

VARIABLES
    watches,    \* h.watches[key]
    shared,     \* each sharedWatch: how far it is opened, whether its OS watcher is
                \*   closed or has failed, sw.failed and sw.subs
    fan,        \* its fanOut
    user        \* where a consumer is, the sharedWatch it holds, its Failed closed

hubVars == <<watches, shared, fan, user>>

NewShared == [ready |-> "opening", closed |-> FALSE, blind |-> FALSE, failed |-> FALSE, subs |-> {}]
Away == [at |-> "out", sw |-> NoWatch, told |-> FALSE]

HubInit ==
    /\ watches = NoWatch
    /\ shared = [w \in Watches |-> NewShared]
    /\ fan = [w \in Watches |-> "off"]
    /\ user = [u \in Users |-> Away]

\* Nothing refers to the sharedWatch any more.
Unreferenced(w) == /\ w # watches
                   /\ fan[w] \in {"off", "done"}
                   /\ \A u \in Users : user[u].sw # w

At(u, place) == user' = [user EXCEPT ![u].at = place]
Leaves(u) == user' = [user EXCEPT ![u] = Away]
LooksAgain(u) == user' = [user EXCEPT ![u] = [Away EXCEPT !.at = "look"]]

-----------------------------------------------------------------------------
(* Subscribe.                                                              *)

Subscribe(u) ==
    /\ user[u].at = "out"
    /\ At(u, "look")
    /\ UNCHANGED <<watches, shared, fan>>

\* hasFailed: a watch that is still opening has not.
HasFailed(w) == shared[w].ready # "opening" /\ shared[w].failed

\* Under h.mu: the watch of the map, or a fresh one where none serves.
Look(u) ==
    /\ user[u].at = "look"
    /\ IF watches # NoWatch /\ ~ HasFailed(watches)
       THEN /\ user' = [user EXCEPT ![u].at = "wait", ![u].sw = watches]
            /\ UNCHANGED <<watches, shared, fan>>
       ELSE \E w \in Watches :
            /\ Unreferenced(w)
            /\ watches' = w
            /\ shared' = [shared EXCEPT ![w] = NewShared]
            /\ fan' = [fan EXCEPT ![w] = "off"]
            /\ user' = [user EXCEPT ![u].at = "open", ![u].sw = w]

\* openShared
Open(u) ==
    LET w == user[u].sw
    IN  /\ user[u].at = "open"
        /\ shared' = [shared EXCEPT ![w].ready = "open"]
        /\ fan' = [fan EXCEPT ![w] = "select"]
        /\ At(u, "wait")
        /\ UNCHANGED watches

\* The watch leaves the map before its error is published.
OpenFails(u) ==
    /\ user[u].at = "open"
    /\ watches' = NoWatch
    /\ At(u, "error")
    /\ UNCHANGED <<shared, fan>>

OpenError(u) ==
    /\ user[u].at = "error"
    /\ shared' = [shared EXCEPT ![user[u].sw].ready = "error"]
    /\ At(u, "wait")
    /\ UNCHANGED <<watches, fan>>

\* <-sw.ready
Ready(u) ==
    LET w == user[u].sw
    IN  /\ user[u].at = "wait"
        /\ \/ shared[w].ready = "open" /\ At(u, "join")
           \/ shared[w].ready = "error" /\ Leaves(u)
        /\ UNCHANGED <<watches, shared, fan>>

\* Mutant: who comes too late looks again and closes nothing.
JoinTurnedAway(u) ==
    LET w == user[u].sw
    IN  /\ user[u].at = "join"
        /\ watches # w
        /\ LooksAgain(u)
        /\ UNCHANGED <<watches, shared, fan>>

\* The watch left the map: without a subscriber nobody else would close it.
JoinRefused(u) ==
    LET w == user[u].sw
    IN  /\ user[u].at = "join"
        /\ watches # w
        /\ IF shared[w].subs = {} THEN At(u, "closeOrphan") ELSE LooksAgain(u)
        /\ UNCHANGED <<watches, shared, fan>>

\* Mutant: a failure from before the join is not passed on.
JoinUntold(u) ==
    LET w == user[u].sw
    IN  /\ user[u].at = "join"
        /\ watches = w
        /\ shared' = [shared EXCEPT ![w].subs = @ \cup {u}]
        /\ At(u, "in")
        /\ UNCHANGED <<watches, fan>>

Join(u) ==
    LET w == user[u].sw
    IN  /\ user[u].at = "join"
        /\ watches = w
        /\ shared' = [shared EXCEPT ![w].subs = @ \cup {u}]
        /\ user' = [user EXCEPT ![u].at = "in", ![u].told = shared[w].failed]
        /\ UNCHANGED <<watches, fan>>

-----------------------------------------------------------------------------
(* Close.                                                                  *)

\* Mutant: the map's entry goes whichever watch it is.
CloseKey(u) ==
    LET w == user[u].sw
        last == shared[w].subs = {u}
    IN  /\ user[u].at = "in"
        /\ shared' = [shared EXCEPT ![w].subs = @ \ {u}]
        /\ watches' = IF last THEN NoWatch ELSE watches
        /\ IF last THEN At(u, "closeLast") ELSE Leaves(u)
        /\ UNCHANGED fan

\* Under h.mu and sw.mu; a successor in the map stays.
Unsubscribe(u) ==
    LET w == user[u].sw
        last == shared[w].subs = {u}
    IN  /\ user[u].at = "in"
        /\ shared' = [shared EXCEPT ![w].subs = @ \ {u}]
        /\ watches' = IF last /\ watches = w THEN NoWatch ELSE watches
        /\ IF last THEN At(u, "closeLast") ELSE Leaves(u)
        /\ UNCHANGED fan

\* sw.w.Close(), by the last subscriber or by a joiner that came too late.
CloseWatcher(u) ==
    /\ user[u].at \in {"closeLast", "closeOrphan"}
    /\ shared' = [shared EXCEPT ![user[u].sw].closed = TRUE]
    /\ At(u, IF user[u].at = "closeLast" THEN "leave" ELSE "retry")
    /\ UNCHANGED <<watches, fan>>

\* <-sw.done
FanOutDone(u) ==
    /\ \/ user[u].at = "leave" /\ fan[user[u].sw] = "done" /\ Leaves(u)
       \/ user[u].at = "retry" /\ fan[user[u].sw] = "done" /\ LooksAgain(u)
    /\ UNCHANGED <<watches, shared, fan>>

-----------------------------------------------------------------------------
(* The OS watcher and fanOut.                                              *)

\* The OS watcher can no longer see every change: it closes Failed.
Blind(w) ==
    /\ shared[w].ready = "open" /\ ~ shared[w].closed /\ ~ shared[w].blind
    /\ shared' = [shared EXCEPT ![w].blind = TRUE]
    /\ UNCHANGED <<watches, fan, user>>

FanOutFailed(w) ==
    /\ fan[w] = "select"
    /\ shared[w].blind /\ ~ shared[w].failed
    /\ shared' = [shared EXCEPT ![w].failed = TRUE]
    /\ fan' = [fan EXCEPT ![w] = "tell"]
    /\ UNCHANGED <<watches, user>>

\* each(s.fail)
FanOutTell(w) ==
    /\ fan[w] = "tell"
    /\ fan' = [fan EXCEPT ![w] = "select"]
    /\ user' = [u \in Users |-> [user[u] EXCEPT !.told = @ \/ u \in shared[w].subs]]
    /\ UNCHANGED <<watches, shared>>

\* Close closed Events.
FanOutEnd(w) ==
    /\ fan[w] = "select"
    /\ shared[w].closed
    /\ fan' = [fan EXCEPT ![w] = "done"]
    /\ UNCHANGED <<watches, shared, user>>

HubNext ==
    \/ \E u \in Users :
          \/ Subscribe(u) \/ Look(u) \/ Open(u) \/ OpenFails(u) \/ OpenError(u) \/ Ready(u)
          \/ Join(u) \/ JoinRefused(u) \/ Unsubscribe(u) \/ CloseWatcher(u) \/ FanOutDone(u)
    \/ \E w \in Watches : Blind(w) \/ FanOutFailed(w) \/ FanOutTell(w) \/ FanOutEnd(w)

HubSpec == HubInit /\ [][HubNext]_hubVars

-----------------------------------------------------------------------------
(* Properties.                                                             *)

Places == {"out", "look", "open", "error", "wait", "join", "in", "closeLast", "closeOrphan",
           "leave", "retry"}

\* Every variable holds what the hub declares.
HubTypeOK ==
    /\ watches \in Watches \cup {NoWatch}
    /\ shared \in [Watches -> [ready : {"opening", "open", "error"}, closed : BOOLEAN,
                               blind : BOOLEAN, failed : BOOLEAN, subs : SUBSET Users]]
    /\ fan \in [Watches -> {"off", "select", "tell", "done"}]
    /\ user \in [Users -> [at : Places, sw : Watches \cup {NoWatch}, told : BOOLEAN]]

Watching(w) == shared[w].ready = "open" /\ ~ shared[w].closed

\* hub.go:10, "shares one OS watcher per root": a subscriber's watcher is open as
\* long as it stays, whoever leaves or fails beside it, and of two watchers with
\* subscribers at least one has failed and is about to be left.
SubscribersShare ==
    /\ \A w \in Watches : shared[w].subs # {} => Watching(w)
    /\ \A w, v \in Watches :
          shared[w].subs # {} /\ shared[v].subs # {} /\ w # v
             => shared[w].failed \/ shared[v].failed

\* hub.go:168: no OS watcher outlives everyone.  One that is open has a
\* subscriber, or a goroutine on its way to join or to close it.
NoWatcherLeaks ==
    \A w \in Watches :
        Watching(w) => \/ shared[w].subs # {}
                       \/ \E u \in Users : user[u].sw = w

\* hub.go:60: Failed reaches every subscription, those that join while the
\* failure is handed out included.
FailureReachesAll ==
    \A w \in Watches, u \in Users :
        shared[w].failed /\ fan[w] # "tell" /\ u \in shared[w].subs => user[u].told
=============================================================================
