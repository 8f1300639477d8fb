------------------------ MODULE RobotsTxtCheckerProofs ------------------------
(***************************************************************************)
(* Proofs about RobotsTxtChecker, for any askers, origins, time to live    *)
(* and changes of the sites: one load of an origin at a time and none      *)
(* within Ttl of the last, answers that rest on fresh rules, refusals that *)
(* rest on rules the site served.                                          *)
(*                                                                         *)
(* What makes the spacing inductive is that the cache is the last load: an *)
(* asker that starts one found its stamp Ttl old, and nobody else can have *)
(* finished one since, for it holds the lock.                              *)
(***************************************************************************)
EXTENDS RobotsTxtChecker, TLAPS

Last(s) == s[Len(s)]

\* The cache of an origin is what its last load left, and nothing before the first.
CacheIsLastLoad ==
    \A o \in Origins :
        /\ loads[o] = <<>> => cache[o].parser = "none"
        /\ loads[o] # <<>> => /\ cache[o].parser = Parsed(Last(loads[o]).saw)
                              /\ cache[o].stamp = Last(loads[o]).to

RobotsInv == TypeOK /\ LoadsSpaced /\ CacheIsLastLoad /\ AnswersAreFresh /\ RefusedOnlyByRules

LoadType == [from : 0 .. MaxTime, to : 0 .. MaxTime, saw : Served]

\* The fields of a record of each kind, for the provers.
LEMMA RecordFields ==
    ASSUME TypeOK
    PROVE  /\ now \in Nat
           /\ \A o \in Origins : /\ cache[o].parser \in Rules \union {"none"}
                                 /\ cache[o].stamp \in 0 .. MaxTime
                                 /\ loads[o] \in Seq(LoadType)
           /\ \A a \in Askers : /\ target[a] \in Origins
                                /\ asked[a].from \in 0 .. MaxTime
                                /\ asked[a].saw \in Served
<1> USE DEF TypeOK
<1>1. now \in Nat
  BY RobotsAssumption
<1>2. ASSUME NEW o \in Origins
      PROVE  /\ cache[o].parser \in Rules \union {"none"}
             /\ cache[o].stamp \in 0 .. MaxTime
  OBVIOUS
<1>3. \A o \in Origins : loads[o] \in Seq(LoadType)
  BY DEF LoadType
<1>4. ASSUME NEW a \in Askers
      PROVE  target[a] \in Origins /\ asked[a].from \in 0 .. MaxTime /\ asked[a].saw \in Served
  OBVIOUS
<1> QED BY <1>1, <1>2, <1>3, <1>4

-----------------------------------------------------------------------------
LEMMA InitInv == Init => RobotsInv
<1> SUFFICES ASSUME Init PROVE RobotsInv
  OBVIOUS
<1>1. TypeOK
  <2>1. 0 \in 0 .. MaxTime /\ 0 \in 0 .. MaxChanges
    BY RobotsAssumption
  <2> QED BY <2>1 DEF Init, TypeOK, Absent, Rules, Served
<1>2. LoadsSpaced
  BY DEF Init, LoadsSpaced
<1>3. CacheIsLastLoad
  BY DEF Init, CacheIsLastLoad, Absent
<1>4. AnswersAreFresh /\ RefusedOnlyByRules
  BY DEF Init, AnswersAreFresh, RefusedOnlyByRules
<1> QED BY <1>1, <1>2, <1>3, <1>4 DEF RobotsInv

\* An answer from the cache: of fresh rules, and a refusal by the last load's.
LEMMA ReplyFromCache ==
    ASSUME RobotsInv, NEW a \in Askers, Fresh(target[a]),
           Reply(a, cache[target[a]].parser, cache[target[a]].stamp), UNCHANGED loads,
           UNCHANGED target
    PROVE  /\ answer' \in [Askers -> [rule : Rules, at : 0 .. MaxTime, stamp : 0 .. MaxTime]]
           /\ AnswersAreFresh'
           /\ RefusedOnlyByRules'
<1> DEFINE o == target[a]
<1>1. /\ o \in Origins
      /\ cache[o].parser \in Rules /\ cache[o].stamp \in 0 .. MaxTime
      /\ now \in 0 .. MaxTime
      /\ now - cache[o].stamp < Ttl
  BY RecordFields DEF RobotsInv, TypeOK, Fresh
<1>2. /\ answer' = [answer EXCEPT ![a] =
             [rule |-> cache[o].parser, at |-> now, stamp |-> cache[o].stamp]]
      /\ pc' = [pc EXCEPT ![a] = "answered"]
  BY DEF Reply
<1>3. answer' \in [Askers -> [rule : Rules, at : 0 .. MaxTime, stamp : 0 .. MaxTime]]
  BY <1>1, <1>2 DEF RobotsInv, TypeOK
<1>4. AnswersAreFresh'
  BY <1>1, <1>2 DEF RobotsInv, TypeOK, AnswersAreFresh
<1>5. cache[o].parser = "deny" =>
         \E i \in 1 .. Len(loads[o]) : /\ loads[o][i].to = cache[o].stamp
                                       /\ loads[o][i].saw = "deny"
  <2> SUFFICES ASSUME cache[o].parser = "deny"
               PROVE  \E i \in 1 .. Len(loads[o]) : /\ loads[o][i].to = cache[o].stamp
                                                    /\ loads[o][i].saw = "deny"
    OBVIOUS
  <2>1. loads[o] # <<>>
    BY <1>1 DEF RobotsInv, CacheIsLastLoad
  <2>2. Len(loads[o]) \in 1 .. Len(loads[o])
    BY <1>1, <2>1, RecordFields DEF RobotsInv
  <2>3. Parsed(Last(loads[o]).saw) = "deny" /\ Last(loads[o]).to = cache[o].stamp
    BY <1>1, <2>1 DEF RobotsInv, CacheIsLastLoad
  <2> QED BY <2>2, <2>3 DEF Parsed, Last
<1>6. RefusedOnlyByRules'
  BY <1>1, <1>2, <1>5 DEF RobotsInv, TypeOK, RefusedOnlyByRules
<1> QED BY <1>3, <1>4, <1>6

\* A load starts: the lock was free, and what was cached is stale.
LEMMA StartLoadSpaced ==
    ASSUME RobotsInv, NEW a \in Askers, ~Fresh(target[a]), LockFree(target[a]),
           StartLoad(a), UNCHANGED <<loads, target>>
    PROVE  /\ asked' \in [Askers -> [from : 0 .. MaxTime, saw : Served]]
           /\ LoadsSpaced'
<1> DEFINE o == target[a]
<1>1. /\ o \in Origins /\ site[o] \in Served /\ now \in 0 .. MaxTime
  BY DEF RobotsInv, TypeOK
<1>2. /\ pc' = [pc EXCEPT ![a] = "loading"]
      /\ asked' = [asked EXCEPT ![a] = [from |-> now, saw |-> site[o]]]
  BY DEF StartLoad
<1>3. asked' \in [Askers -> [from : 0 .. MaxTime, saw : Served]]
  BY <1>1, <1>2 DEF RobotsInv, TypeOK
<1>4. ASSUME loads[o] # <<>>
      PROVE  now - loads[o][Len(loads[o])].to >= Ttl
  <2>1. /\ cache[o].stamp = loads[o][Len(loads[o])].to
        /\ cache[o].parser = Parsed(Last(loads[o]).saw)
    BY <1>1, <1>4 DEF RobotsInv, CacheIsLastLoad, Last
  <2>2. cache[o].parser # "none"
    BY <2>1 DEF Parsed
  <2> QED BY <1>1, <2>1, <2>2, RecordFields, RobotsAssumption DEF RobotsInv, Fresh
<1>5. \A b \in Askers : target[b] = o => pc[b] # "loading"
  BY DEF LockFree
<1>6. \A p \in Origins, b, c \in Askers :
         (pc'[b] = "loading" /\ pc'[c] = "loading" /\ target[b] = p /\ target[c] = p) => b = c
  BY <1>2, <1>5 DEF RobotsInv, TypeOK, LoadsSpaced
<1>7. \A p \in Origins, b \in Askers : pc'[b] = "loading" /\ target[b] = p /\ loads[p] # <<>> =>
         asked'[b].from - loads[p][Len(loads[p])].to >= Ttl
  BY <1>2, <1>4 DEF RobotsInv, TypeOK, LoadsSpaced
<1> QED BY <1>3, <1>6, <1>7 DEF RobotsInv, LoadsSpaced

\* A step that starts no load and leaves the loads alone leaves them spaced.
LEMMA SpacedKept ==
    ASSUME RobotsInv, UNCHANGED <<loads, target, asked>>,
           \A a \in Askers : pc'[a] = "loading" => pc[a] = "loading"
    PROVE  LoadsSpaced'
BY DEF RobotsInv, LoadsSpaced

\* A step that answers nobody leaves the answers right.
LEMMA AnswersKept ==
    ASSUME RobotsInv, UNCHANGED <<loads, target, answer>>,
           \A a \in Askers : pc'[a] = "answered" => pc[a] = "answered"
    PROVE  AnswersAreFresh' /\ RefusedOnlyByRules'
BY DEF RobotsInv, AnswersAreFresh, RefusedOnlyByRules

-----------------------------------------------------------------------------
LEMMA AskInv == ASSUME RobotsInv, NEW a \in Askers, Ask(a) PROVE RobotsInv'
<1> DEFINE o == target[a]
<1>1. /\ pc[a] = "idle" /\ o \in Origins
      /\ UNCHANGED <<now, site, changes, cache, target, loads>>
  BY DEF Ask, RobotsInv, TypeOK
<1>2. CacheIsLastLoad'
  BY <1>1 DEF RobotsInv, CacheIsLastLoad
<1>3. CASE Fresh(o) /\ Reply(a, cache[o].parser, cache[o].stamp) /\ UNCHANGED <<queue, asked>>
  <2>1. pc' = [pc EXCEPT ![a] = "answered"]
    BY <1>3 DEF Reply
  <2>2. /\ answer' \in [Askers -> [rule : Rules, at : 0 .. MaxTime, stamp : 0 .. MaxTime]]
        /\ AnswersAreFresh' /\ RefusedOnlyByRules'
    BY <1>1, <1>3, ReplyFromCache
  <2>3. TypeOK'
    BY <1>1, <1>3, <2>1, <2>2 DEF RobotsInv, TypeOK
  <2>4. LoadsSpaced'
    BY <1>1, <1>3, <2>1, SpacedKept DEF RobotsInv, TypeOK
  <2> QED BY <1>2, <2>2, <2>3, <2>4 DEF RobotsInv
<1>4. CASE /\ ~Fresh(o) /\ LockFree(o) /\ queue[o] = <<>>
           /\ StartLoad(a) /\ UNCHANGED <<queue, answer>>
  <2>1. pc' = [pc EXCEPT ![a] = "loading"]
    BY <1>4 DEF StartLoad
  <2>2. asked' \in [Askers -> [from : 0 .. MaxTime, saw : Served]] /\ LoadsSpaced'
    BY <1>1, <1>4, StartLoadSpaced
  <2>3. TypeOK'
    BY <1>1, <1>4, <2>1, <2>2 DEF RobotsInv, TypeOK
  <2>4. AnswersAreFresh' /\ RefusedOnlyByRules'
    BY <1>1, <1>4, <2>1, AnswersKept DEF RobotsInv, TypeOK
  <2> QED BY <1>2, <2>2, <2>3, <2>4 DEF RobotsInv
<1>5. CASE /\ queue' = [queue EXCEPT ![o] = Append(@, a)]
           /\ pc' = [pc EXCEPT ![a] = "queued"]
           /\ UNCHANGED <<asked, answer>>
  <2>1. TypeOK'
    <3>1. queue[o] \in Seq(Askers)
      BY <1>1 DEF RobotsInv, TypeOK
    <3>2. Append(queue[o], a) \in Seq(Askers)
      BY <3>1
    <3>3. queue' \in [Origins -> Seq(Askers)]
      BY <1>1, <1>5, <3>2 DEF RobotsInv, TypeOK
    <3> QED BY <1>1, <1>5, <3>3 DEF RobotsInv, TypeOK
  <2>2. LoadsSpaced'
    BY <1>1, <1>5, SpacedKept DEF RobotsInv, TypeOK
  <2>3. AnswersAreFresh' /\ RefusedOnlyByRules'
    BY <1>1, <1>5, AnswersKept DEF RobotsInv, TypeOK
  <2> QED BY <1>2, <2>1, <2>2, <2>3 DEF RobotsInv
<1> QED BY <1>3, <1>4, <1>5 DEF Ask

LEMMA ResumeInv == ASSUME RobotsInv, NEW a \in Askers, Resume(a) PROVE RobotsInv'
<1> DEFINE o == target[a]
<1>1. /\ pc[a] = "queued" /\ o \in Origins /\ LockFree(o)
      /\ queue[o] # <<>>
      /\ queue' = [queue EXCEPT ![o] = Tail(@)]
      /\ UNCHANGED <<now, site, changes, cache, target, loads>>
  BY DEF Resume, RobotsInv, TypeOK
<1>2. CacheIsLastLoad'
  BY <1>1 DEF RobotsInv, CacheIsLastLoad
<1>3. queue' \in [Origins -> Seq(Askers)]
  BY <1>1 DEF RobotsInv, TypeOK
<1>4. CASE Fresh(o) /\ Reply(a, cache[o].parser, cache[o].stamp) /\ UNCHANGED asked
  <2>1. pc' = [pc EXCEPT ![a] = "answered"]
    BY <1>4 DEF Reply
  <2>2. /\ answer' \in [Askers -> [rule : Rules, at : 0 .. MaxTime, stamp : 0 .. MaxTime]]
        /\ AnswersAreFresh' /\ RefusedOnlyByRules'
    BY <1>1, <1>4, ReplyFromCache
  <2>3. TypeOK'
    BY <1>1, <1>3, <1>4, <2>1, <2>2 DEF RobotsInv, TypeOK
  <2>4. LoadsSpaced'
    BY <1>1, <1>4, <2>1, SpacedKept DEF RobotsInv, TypeOK
  <2> QED BY <1>2, <2>2, <2>3, <2>4 DEF RobotsInv
<1>5. CASE ~Fresh(o) /\ StartLoad(a) /\ UNCHANGED answer
  <2>1. pc' = [pc EXCEPT ![a] = "loading"]
    BY <1>5 DEF StartLoad
  <2>2. asked' \in [Askers -> [from : 0 .. MaxTime, saw : Served]] /\ LoadsSpaced'
    BY <1>1, <1>5, StartLoadSpaced
  <2>3. TypeOK'
    BY <1>1, <1>3, <1>5, <2>1, <2>2 DEF RobotsInv, TypeOK
  <2>4. AnswersAreFresh' /\ RefusedOnlyByRules'
    BY <1>1, <1>5, <2>1, AnswersKept DEF RobotsInv, TypeOK
  <2> QED BY <1>2, <2>2, <2>3, <2>4 DEF RobotsInv
<1> QED BY <1>4, <1>5 DEF Resume, RecheckWithLock

\* A load ends: its loader was the only one, so the new last load is the cache, and
\* nobody is loading the origin whose start would have to be spaced from it.
LEMMA FinishLoadInv == ASSUME RobotsInv, NEW a \in Askers, FinishLoad(a) PROVE RobotsInv'
<1> DEFINE o == target[a]
<1>1. PICK saw \in Responses(a) :
          /\ cache' = [cache EXCEPT ![o] = [parser |-> Parsed(saw), stamp |-> now]]
          /\ Reply(a, Parsed(saw), now)
          /\ loads' = [loads EXCEPT ![o] =
                           Append(@, [from |-> asked[a].from, to |-> now, saw |-> saw])]
  BY DEF FinishLoad
<1> DEFINE new == [from |-> asked[a].from, to |-> now, saw |-> saw]
<1>2. /\ pc[a] = "loading" /\ o \in Origins /\ now \in 0 .. MaxTime
      /\ UNCHANGED <<now, site, changes, queue, target, asked>>
  BY DEF FinishLoad, RobotsInv, TypeOK
<1>3. saw \in Served /\ Parsed(saw) \in Rules /\ Parsed(saw) # "none"
  BY <1>1, <1>2, RecordFields DEF Responses, Parsed, Rules, RobotsInv, TypeOK
<1>4. /\ answer' = [answer EXCEPT ![a] = [rule |-> Parsed(saw), at |-> now, stamp |-> now]]
      /\ pc' = [pc EXCEPT ![a] = "answered"]
  BY <1>1 DEF Reply
<1>5. new \in LoadType
  BY <1>2, <1>3, RecordFields DEF RobotsInv, LoadType
<1>6. /\ loads[o] \in Seq(LoadType) /\ Len(loads[o]) \in Nat
      /\ loads'[o] = Append(loads[o], new)
      /\ \A p \in Origins \ {o} : loads'[p] = loads[p]
  <2>1. loads[o] \in Seq(LoadType)
    BY <1>2, RecordFields DEF RobotsInv
  <2>2. loads \in [Origins -> Seq(LoadType)]
    BY DEF RobotsInv, TypeOK, LoadType
  <2> QED BY <1>1, <1>2, <2>1, <2>2
<1> HIDE DEF new
<1>7. /\ Len(loads'[o]) = Len(loads[o]) + 1
      /\ loads'[o][Len(loads[o]) + 1] = new
      /\ \A i \in 1 .. Len(loads[o]) : loads'[o][i] = loads[o][i]
      /\ loads'[o] # <<>>
      /\ loads'[o] \in Seq(LoadType)
  BY <1>5, <1>6
<1>8. TypeOK'
  <2>1. loads' \in [Origins -> Seq(LoadType)]
    <3>1. loads \in [Origins -> Seq(LoadType)]
      BY DEF RobotsInv, TypeOK, LoadType
    <3> QED BY <1>1, <1>6, <1>7, <3>1 DEF new
  <2>2. cache' \in [Origins -> [parser : Rules \union {"none"}, stamp : 0 .. MaxTime]]
    BY <1>1, <1>2, <1>3 DEF RobotsInv, TypeOK
  <2>3. answer' \in [Askers -> [rule : Rules, at : 0 .. MaxTime, stamp : 0 .. MaxTime]]
    BY <1>2, <1>3, <1>4 DEF RobotsInv, TypeOK
  <2> QED BY <1>2, <1>4, <2>1, <2>2, <2>3 DEF RobotsInv, TypeOK, LoadType
<1>9. LoadsSpaced'
  <2>1. \A p \in Origins, b, c \in Askers :
           (pc'[b] = "loading" /\ pc'[c] = "loading" /\ target[b] = p /\ target[c] = p) => b = c
    BY <1>4 DEF RobotsInv, TypeOK, LoadsSpaced
  <2>2. \A b \in Askers : target[b] = o => pc'[b] # "loading"
    BY <1>2, <1>4 DEF RobotsInv, TypeOK, LoadsSpaced
  <2>3. \A p \in Origins, b \in Askers : pc'[b] = "loading" /\ target[b] = p /\ loads'[p] # <<>> =>
           asked[b].from - loads'[p][Len(loads'[p])].to >= Ttl
    BY <1>4, <1>6, <2>2 DEF RobotsInv, TypeOK, LoadsSpaced
  <2>4. loads[o] # <<>> => new.from - loads[o][Len(loads[o])].to >= Ttl
    BY <1>2 DEF new, RobotsInv, LoadsSpaced
  <2>5. ASSUME NEW i \in 2 .. Len(loads'[o])
        PROVE  loads'[o][i].from - loads'[o][i - 1].to >= Ttl
    <3>1. CASE i = Len(loads[o]) + 1
      BY <1>6, <1>7, <2>4, <2>5, <3>1
    <3>2. CASE i # Len(loads[o]) + 1
      <4>1. i \in 2 .. Len(loads[o]) /\ i - 1 \in 1 .. Len(loads[o])
        BY <1>6, <1>7, <3>2
      <4>2. loads'[o][i] = loads[o][i] /\ loads'[o][i - 1] = loads[o][i - 1]
        BY <1>6, <1>7, <4>1
      <4> QED BY <1>2, <4>1, <4>2 DEF RobotsInv, LoadsSpaced
    <3> QED BY <3>1, <3>2
  <2>6. \A p \in Origins : \A i \in 2 .. Len(loads'[p]) :
           loads'[p][i].from - loads'[p][i - 1].to >= Ttl
    BY <1>6, <2>5 DEF RobotsInv, LoadsSpaced
  <2> QED BY <1>2, <2>1, <2>3, <2>6 DEF LoadsSpaced
<1>10. CacheIsLastLoad'
  <2>1. Last(loads'[o]) = new
    BY <1>7 DEF Last
  <2>2. new.saw = saw /\ new.to = now
    BY DEF new
  <2>3. cache'[o].parser = Parsed(saw) /\ cache'[o].stamp = now
    BY <1>1, <1>2 DEF RobotsInv, TypeOK
  <2>4. \A p \in Origins \ {o} : cache'[p] = cache[p]
    BY <1>1, <1>2 DEF RobotsInv, TypeOK
  <2> QED BY <1>6, <1>7, <2>1, <2>2, <2>3, <2>4 DEF RobotsInv, CacheIsLastLoad
<1>11. AnswersAreFresh'
  BY <1>2, <1>4, RobotsAssumption DEF RobotsInv, TypeOK, AnswersAreFresh
<1>12. RefusedOnlyByRules'
  <2> SUFFICES ASSUME NEW b \in Askers, pc'[b] = "answered", answer'[b].rule = "deny"
               PROVE  \E i \in 1 .. Len(loads'[target[b]]) :
                          /\ loads'[target[b]][i].to = answer'[b].stamp
                          /\ loads'[target[b]][i].saw = "deny"
    BY <1>2 DEF RefusedOnlyByRules
  <2>1. CASE b = a
    <3>1. Parsed(saw) = "deny" /\ answer'[a].stamp = now
      BY <1>4, <2>1 DEF RobotsInv, TypeOK
    <3>2. new.saw = "deny" /\ new.to = now
      BY <3>1 DEF new, Parsed
    <3>3. Len(loads[o]) + 1 \in 1 .. Len(loads'[o])
      BY <1>6, <1>7
    <3> QED BY <1>7, <2>1, <3>1, <3>2, <3>3
  <2>2. CASE b # a
    <3>1. pc[b] = "answered" /\ answer'[b] = answer[b] /\ target[b] \in Origins
      BY <1>4, <2>2 DEF RobotsInv, TypeOK
    <3>2. PICK i \in 1 .. Len(loads[target[b]]) :
              /\ loads[target[b]][i].to = answer[b].stamp
              /\ loads[target[b]][i].saw = "deny"
      BY <3>1 DEF RobotsInv, RefusedOnlyByRules
    <3>3. loads'[target[b]][i] = loads[target[b]][i] /\ i \in 1 .. Len(loads'[target[b]])
      BY <1>6, <1>7, <3>1, <3>2
    <3> QED BY <3>1, <3>2, <3>3
  <2> QED BY <2>1, <2>2
<1> QED BY <1>8, <1>9, <1>10, <1>11, <1>12 DEF RobotsInv

\* The site and the clock move: they touch nothing the invariant speaks of but types.
LEMMA EnvironmentInv ==
    ASSUME RobotsInv, Tick \/ (\E o \in Origins : SiteChanges(o)) \/ UNCHANGED vars
    PROVE  RobotsInv'
<1>1. UNCHANGED <<cache, queue, pc, target, asked, answer, loads>>
  BY DEF Tick, SiteChanges, vars
<1>2. LoadsSpaced' /\ AnswersAreFresh' /\ RefusedOnlyByRules' /\ CacheIsLastLoad'
  BY <1>1 DEF RobotsInv, LoadsSpaced, AnswersAreFresh, RefusedOnlyByRules, CacheIsLastLoad
<1>3. now' \in 0 .. MaxTime /\ changes' \in 0 .. MaxChanges /\ site' \in [Origins -> Served]
  <2>1. CASE Tick
    BY <2>1, RobotsAssumption DEF Tick, RobotsInv, TypeOK
  <2>2. ASSUME NEW o \in Origins, SiteChanges(o)
        PROVE  now' \in 0 .. MaxTime /\ changes' \in 0 .. MaxChanges /\ site' \in [Origins -> Served]
    BY <2>2, RobotsAssumption DEF SiteChanges, RobotsInv, TypeOK
  <2>3. CASE UNCHANGED vars
    BY <2>3 DEF vars, RobotsInv, TypeOK
  <2> QED BY <2>1, <2>2, <2>3
<1> QED BY <1>1, <1>2, <1>3 DEF RobotsInv, TypeOK

LEMMA StepInv == RobotsInv /\ [Next]_vars => RobotsInv'
BY AskInv, ResumeInv, FinishLoadInv, EnvironmentInv DEF Next

LEMMA InvHolds == Spec => []RobotsInv
BY InitInv, StepInv, PTL DEF Spec

-----------------------------------------------------------------------------
\* Every variable of robotstxt.py's cache, its lock and its loads keeps its type.
THEOREM TypeCorrect == Spec => []TypeOK
<1>1. RobotsInv => TypeOK
  BY DEF RobotsInv
<1> QED BY <1>1, InvHolds, PTL

\* A burst makes one request, and the site is asked again only after Ttl
\* (_get_parser's double check around its lock).
THEOREM BurstsLoadOnce == Spec => []LoadsSpaced
<1>1. RobotsInv => LoadsSpaced
  BY DEF RobotsInv
<1> QED BY <1>1, InvHolds, PTL

\* No answer of can_fetch rests on rules loaded Ttl ago, also after a wait for the lock.
THEOREM FreshAnswers == Spec => []AnswersAreFresh
<1>1. RobotsInv => AnswersAreFresh
  BY DEF RobotsInv
<1> QED BY <1>1, InvHolds, PTL

\* can_fetch fails open: it refuses only what the origin's rules refused.
THEOREM FailsOpen == Spec => []RefusedOnlyByRules
<1>1. RobotsInv => RefusedOnlyByRules
  BY DEF RobotsInv
<1> QED BY <1>1, InvHolds, PTL
=============================================================================
