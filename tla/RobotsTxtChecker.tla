-------------------------- MODULE RobotsTxtChecker --------------------------
(***************************************************************************)
(* The robots.txt cache of src/utils/robotstxt.py: one parser per origin,  *)
(* kept for Ttl, loaded under a lock per origin with the cache checked     *)
(* before and after the lock is taken.                                     *)
(*                                                                         *)
(* A step runs from one await to the next: the two awaits of _get_parser   *)
(* are the lock (handed over in arrival order) and _load, made with the    *)
(* lock held.  The site is the environment: it may change its rules or     *)
(* stop answering at any time, also while a load is in flight.             *)
(***************************************************************************)
EXTENDS Integers, Sequences

CONSTANTS
    Askers,     \* tasks that call can_fetch, once each
    Origins,
    Ttl,        \* RobotsTxtChecker.ttl, in ticks
    MaxTime,    \* bound: the last tick
    MaxChanges  \* bound: how often the sites change

ASSUME RobotsAssumption ==
    /\ Origins # {}
    /\ Ttl \in Nat \ {0} /\ MaxTime \in Nat /\ MaxChanges \in Nat

VARIABLES
    now,      \* time.monotonic()
    site,     \* per origin: the rules it serves for the crawler, or down
    changes,  \* how often a site changed
    cache,    \* _cache: per origin, the parser and its time stamp; or nothing
    queue,    \* waiters of each origin's lock
    pc,       \* per asker: idle, queued, loading (holding the lock), answered
    target,   \* per asker: the origin of its URL
    asked,    \* per loader: when its request left and what the site served then
    answer,   \* per asker: what can_fetch returned, and the stamp it rests on
    loads     \* history: per origin, the start, end and content of every load

vars == <<now, site, changes, cache, queue, pc, target, asked, answer, loads>>

Rules == {"allow", "deny"}
Served == Rules \union {"down"}
Absent == [parser |-> "none", stamp |-> 0]

TypeOK ==
    /\ now \in 0 .. MaxTime
    /\ site \in [Origins -> Served]
    /\ changes \in 0 .. MaxChanges
    /\ cache \in [Origins -> [parser : Rules \union {"none"}, stamp : 0 .. MaxTime]]
    /\ queue \in [Origins -> Seq(Askers)]
    /\ pc \in [Askers -> {"idle", "queued", "loading", "answered"}]
    /\ target \in [Askers -> Origins]
    /\ asked \in [Askers -> [from : 0 .. MaxTime, saw : Served]]
    /\ answer \in [Askers -> [rule : Rules, at : 0 .. MaxTime, stamp : 0 .. MaxTime]]
    /\ loads \in [Origins -> Seq([from : 0 .. MaxTime, to : 0 .. MaxTime, saw : Served])]

Init ==
    /\ now = 0
    /\ site \in [Origins -> Served]
    /\ changes = 0
    /\ cache = [o \in Origins |-> Absent]
    /\ queue = [o \in Origins |-> <<>>]
    /\ pc = [a \in Askers |-> "idle"]
    /\ target \in [Askers -> Origins]
    /\ asked = [a \in Askers |-> [from |-> 0, saw |-> "allow"]]
    /\ answer = [a \in Askers |-> [rule |-> "allow", at |-> 0, stamp |-> 0]]
    /\ loads = [o \in Origins |-> <<>>]

-----------------------------------------------------------------------------
\* Mutant: the age of a cached parser is not looked at.
CachedAtAll(o) == cache[o].parser # "none"

\* _fresh
Fresh(o) == cache[o].parser # "none" /\ now - cache[o].stamp < Ttl

LockFree(o) == \A a \in Askers : target[a] = o => pc[a] # "loading"

Reply(a, parser, stamp) ==
    /\ answer' = [answer EXCEPT ![a] = [rule |-> parser, at |-> now, stamp |-> stamp]]
    /\ pc' = [pc EXCEPT ![a] = "answered"]

StartLoad(a) ==
    /\ pc' = [pc EXCEPT ![a] = "loading"]
    /\ asked' = [asked EXCEPT ![a] = [from |-> now, saw |-> site[target[a]]]]

\* can_fetch up to its first suspension.
Ask(a) ==
    LET o == target[a] IN
    /\ pc[a] = "idle"
    /\ \/ /\ Fresh(o)
          /\ Reply(a, cache[o].parser, cache[o].stamp)
          /\ UNCHANGED <<queue, asked>>
       \/ /\ ~Fresh(o) /\ LockFree(o) /\ queue[o] = <<>>
          /\ StartLoad(a)
          /\ UNCHANGED <<queue, answer>>
       \/ /\ ~Fresh(o) /\ ~(LockFree(o) /\ queue[o] = <<>>)
          /\ queue' = [queue EXCEPT ![o] = Append(@, a)]
          /\ pc' = [pc EXCEPT ![a] = "queued"]
          /\ UNCHANGED <<asked, answer>>
    /\ UNCHANGED <<now, site, changes, cache, target, loads>>

\* Mutant: the cache is not checked again once the lock is held.
ReloadWithLock(a) == StartLoad(a) /\ UNCHANGED answer

\* The re-check inside the lock.
RecheckWithLock(a) ==
    LET o == target[a] IN
    \/ Fresh(o) /\ Reply(a, cache[o].parser, cache[o].stamp) /\ UNCHANGED asked
    \/ ~Fresh(o) /\ StartLoad(a) /\ UNCHANGED answer

\* The lock was released: its first waiter resumes inside it.
Resume(a) ==
    LET o == target[a] IN
    /\ pc[a] = "queued" /\ LockFree(o)
    /\ queue[o] # <<>> /\ Head(queue[o]) = a
    /\ queue' = [queue EXCEPT ![o] = Tail(@)]
    /\ RecheckWithLock(a)
    /\ UNCHANGED <<now, site, changes, cache, target, loads>>

\* Mutant: allow_all is not set when the load fails.
NoParser(saw) == saw

\* Mutant: fail closed, a site that does not answer is off limits.
FailClosed(saw) == IF saw = "allow" THEN "allow" ELSE "deny"

\* _load: an error, a 4xx or a 5xx allows everything.
Parsed(saw) == IF saw = "deny" THEN "deny" ELSE "allow"

\* Mutant: a site that is down is waited for without a timeout.
HangsWhileDown(a) == {asked[a].saw, site[target[a]]} \ {"down"}

\* The response left the site when the request arrived or at any time up to now.
Responses(a) == {asked[a].saw, site[target[a]]}

\* _load returns; the parser is cached and the lock released.
FinishLoad(a) ==
    LET o == target[a] IN
    /\ pc[a] = "loading"
    /\ \E saw \in Responses(a) :
          /\ cache' = [cache EXCEPT ![o] = [parser |-> Parsed(saw), stamp |-> now]]
          /\ Reply(a, Parsed(saw), now)
          /\ loads' = [loads EXCEPT ![o] =
                           Append(@, [from |-> asked[a].from, to |-> now, saw |-> saw])]
    /\ UNCHANGED <<now, site, changes, queue, target, asked>>

\* The environment: a site changes its rules, goes down or comes back.
SiteChanges(o) ==
    /\ changes < MaxChanges
    /\ changes' = changes + 1
    /\ \E s \in Served \ {site[o]} : site' = [site EXCEPT ![o] = s]
    /\ UNCHANGED <<now, cache, queue, pc, target, asked, answer, loads>>

Tick ==
    /\ now < MaxTime
    /\ now' = now + 1
    /\ UNCHANGED <<site, changes, cache, queue, pc, target, asked, answer, loads>>

Next ==
    \/ \E a \in Askers : Ask(a) \/ Resume(a) \/ FinishLoad(a)
    \/ \E o \in Origins : SiteChanges(o)
    \/ Tick

Spec == Init /\ [][Next]_vars

\* The loop runs every ready task, and _load ends: its client has a timeout.
Fairness == \A a \in Askers : WF_vars(Resume(a)) /\ WF_vars(FinishLoad(a))

FairSpec == Spec /\ Fairness

-----------------------------------------------------------------------------
(* Properties *)

\* A burst of URLs from one host makes one request for its robots.txt, and the
\* site is asked again only when the answer has been kept for Ttl: no load of an
\* origin starts within Ttl of the end of the one before, or beside it.
LoadsSpaced ==
    \A o \in Origins :
        /\ \A a, b \in Askers :
               (pc[a] = "loading" /\ pc[b] = "loading" /\ target[a] = o /\ target[b] = o)
                   => a = b
        /\ \A i \in 2 .. Len(loads[o]) : loads[o][i].from - loads[o][i - 1].to >= Ttl
        /\ \A a \in Askers : pc[a] = "loading" /\ target[a] = o /\ loads[o] # <<>> =>
               asked[a].from - loads[o][Len(loads[o])].to >= Ttl

\* An asker that waited for the lock is answered from what is in the cache when it
\* holds it, not from what it saw before: no answer rests on rules loaded Ttl ago.
AnswersAreFresh ==
    \A a \in Askers : pc[a] = "answered" => answer[a].at - answer[a].stamp < Ttl

\* Failing open: a URL is refused only by rules that the origin served to the very
\* load the answer rests on, never because the origin could not be reached.
RefusedOnlyByRules ==
    \A a \in Askers : pc[a] = "answered" /\ answer[a].rule = "deny" =>
        \E i \in 1 .. Len(loads[target[a]]) :
            /\ loads[target[a]][i].to = answer[a].stamp
            /\ loads[target[a]][i].saw = "deny"

\* Every asker is answered, even if the origin stays down.
EveryAskAnswered ==
    \A a \in Askers : pc[a] \in {"queued", "loading"} ~> pc[a] = "answered"

=============================================================================
