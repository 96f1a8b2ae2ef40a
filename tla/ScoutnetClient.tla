--------------------------- MODULE ScoutnetClient ---------------------------
(***************************************************************************)
(* How pages and the executor read Scoutnet through the one client of a    *)
(* process (scoutnet/client.py, read methods): a short cache of answers, a *)
(* memory of timeouts, and request threads that use both without a lock.   *)
(*                                                                         *)
(* Time passes in ticks and is kept relative to now: of an answer it       *)
(* matters how long ago it was asked for (age, which is what the code      *)
(* compares) and how long ago Scoutnet changed what it says (outdated;     *)
(* None: not yet).  An entry whose age has reached its limit is as good as *)
(* none and is dropped.                                                    *)
(***************************************************************************)
EXTENDS Integers, Sequences, FiniteSetsExt

CONSTANTS
  Handlers,   \* request threads and the run thread
  Pages,      \* what they are asked for
  ListTTL,    \* _MEMBERLIST_TTL_S, in ticks
  OrgTTL,     \* _ORG_TTL_S
  NegTTL,     \* _NEG_TTL_S
  None        \* Python's None

ASSUME LimitsType == {ListTTL, OrgTTL, NegTTL} \subseteq Nat \ {0}
ASSUME NoneIsNoNumber == None \notin Nat

Variants == {"active", "waiting", "awaiting_approval"}
Sources  == Variants \cup {"organisation"}

TTL(s) == IF s \in Variants THEN ListTTL ELSE OrgTTL

(* From here on, ages are not told apart. *)
Cap  == Max({ListTTL, OrgTTL, NegTTL})
Ages == 0..Cap

(* A read a page makes.  A soft one may fail without failing the page.     *)
Read == [of : Sources, soft : BOOLEAN, fresh : BOOLEAN]

Hard(s)  == [of |-> s, soft |-> FALSE, fresh |-> FALSE]
Soft(s)  == [of |-> s, soft |-> TRUE,  fresh |-> FALSE]
Fresh(s) == [of |-> s, soft |-> FALSE, fresh |-> TRUE]

(* The reads of each page, in order.  The overview asks twice for the      *)
(* active members: for its own counts, and again where its inputs are      *)
(* gathered, of which the aggregate figures are asked for only on request. *)
OverviewReads   == <<Hard("active"), Hard("active"), Soft("waiting")>>
AggregateReads  == Append(OverviewReads, Soft("organisation"))
FortroendeReads == <<Hard("active"), Soft("organisation")>>
WaitingReads    == <<Soft("waiting"), Soft("awaiting_approval")>>
DraftsReads     == <<Soft("waiting")>>

(* The check of the keys; and every page that only needs the members.      *)
CheckReads    == <<Soft("active"), Soft("organisation")>>
RegisterReads == <<Hard("active")>>

(* The executor's re-read. *)
WriteReads == <<Fresh("active")>>

Reads == [
  overview   |-> OverviewReads,   aggregate |-> AggregateReads,
  fortroende |-> FortroendeReads, waiting   |-> WaitingReads,
  drafts     |-> DraftsReads,     check     |-> CheckReads,
  register   |-> RegisterReads,   write     |-> WriteReads]

ASSUME PagesType == Pages \subseteq DOMAIN Reads

VARIABLES
  cache,    \* _cache and _org_cache
  neg,      \* _neg_cache: age of the question that timed out
  call      \* what each thread is doing

vars == <<cache, neg, call>>

Answer == [age : Ages, outdated : Ages \cup {None}]

Idle == [pc |-> "idle"]

Failures == {"refused", "timeout", "status", "unreadable"}

(* A thread at one of the reads of a page, with the age of its question    *)
(* and, once there is one, the answer it will get or has got.              *)
Busy == [pc : {"read", "asking", "answered", "got", "raised"}, page : Pages, step : 1..4,
         age : Ages, outdated : Ages \cup {None}, failure : Failures \cup {None}]

(* That a page failed is left to be seen until the next one. *)
Failed == [pc : {"failed"}]

ClientTypeOK ==
  /\ cache \in [Sources -> Answer \cup {None}]
  /\ \A s \in Sources : cache[s] # None => cache[s].age < TTL(s)
  /\ neg \in [Variants -> 0..NegTTL - 1 \cup {None}]
  /\ call \in [Handlers -> {Idle} \cup Busy \cup Failed]

Init ==
  /\ cache = [s \in Sources |-> None]
  /\ neg = [v \in Variants |-> None]
  /\ call = [h \in Handlers |-> Idle]

-----------------------------------------------------------------------------

At(h, pc) == call[h].pc = pc

ReadOf(h)   == Reads[call[h].page][call[h].step]
SourceOf(h) == ReadOf(h).of

(* Nothing stored may answer this read: it bypasses what is, or there is   *)
(* no entry left that is younger than its limit.                           *)
Kept(h)    == ~ReadOf(h).fresh /\ cache[SourceOf(h)] # None
Refused(h) == /\ ~ReadOf(h).fresh
              /\ cache[SourceOf(h)] = None
              /\ SourceOf(h) \in Variants /\ neg[SourceOf(h)] # None

(* An entry whose question is older than its limit counts for nothing, but *)
(* it takes the place of the one that was there.                           *)
Stored(age, limit, entry) == IF age < limit THEN entry ELSE None

Raise(h, failure) ==
  call' = [call EXCEPT ![h] = [@ EXCEPT !.pc = "raised", !.age = 0, !.outdated = None,
                                        !.failure = failure]]

Open(h, page) ==
  /\ call[h].pc \in {"idle", "failed"}
  /\ call' = [call EXCEPT ![h] =
       [pc |-> "read", page |-> page, step |-> 1, age |-> 0, outdated |-> None, failure |-> None]]
  /\ UNCHANGED <<cache, neg>>

(* Mutant: a fresh read is served what is kept. *)
ServeAnyone(h) ==
  /\ At(h, "read") /\ cache[SourceOf(h)] # None
  /\ call' = [call EXCEPT ![h].pc = "got", ![h].age = 0,
                          ![h].outdated = cache[SourceOf(h)].outdated]
  /\ UNCHANGED <<cache, neg>>

Serve(h) ==
  /\ At(h, "read") /\ Kept(h)
  /\ call' = [call EXCEPT ![h].pc = "got", ![h].age = 0,
                          ![h].outdated = cache[SourceOf(h)].outdated]
  /\ UNCHANGED <<cache, neg>>

(* Mutant: being refused counts as another timeout. *)
RefuseAndRemember(h) ==
  /\ At(h, "read") /\ Refused(h)
  /\ Raise(h, "refused")
  /\ neg' = [neg EXCEPT ![SourceOf(h)] = 0]
  /\ UNCHANGED cache

Refuse(h) ==
  /\ At(h, "read") /\ Refused(h)
  /\ Raise(h, "refused")
  /\ UNCHANGED <<cache, neg>>

(* _get: the connection may be tried three times, which only takes time.   *)
Ask(h) ==
  /\ At(h, "read") /\ ~Kept(h) /\ ~Refused(h)
  /\ call' = [call EXCEPT ![h].pc = "asking", ![h].age = 0]
  /\ UNCHANGED <<cache, neg>>

(* Scoutnet answers with what holds now; the answer is on its way.         *)
Reply(h) ==
  /\ At(h, "asking")
  /\ call' = [call EXCEPT ![h].pc = "answered", ![h].outdated = None]
  /\ UNCHANGED <<cache, neg>>

(* Mutant: an answer is as old as its arrival. *)
ReceiveAsNew(h) ==
  LET s == SourceOf(h)  c == call[h] IN
  /\ At(h, "answered")
  /\ cache' = [cache EXCEPT ![s] = [age |-> 0, outdated |-> c.outdated]]
  /\ neg' = IF s \in Variants THEN [neg EXCEPT ![s] = None] ELSE neg
  /\ call' = [call EXCEPT ![h].pc = "got"]

(* It arrives, however late, and is stored with the time of its question;  *)
(* also over the answer to a later one.                                    *)
Receive(h) ==
  LET s == SourceOf(h)  c == call[h] IN
  /\ At(h, "answered")
  /\ cache' = [cache EXCEPT ![s] =
       Stored(c.age, TTL(s), [age |-> c.age, outdated |-> c.outdated])]
  /\ neg' = IF s \in Variants THEN [neg EXCEPT ![s] = None] ELSE neg
  /\ call' = [call EXCEPT ![h].pc = "got"]

(* No answer in time: remembered for a memberlist, with the time of the    *)
(* question, also over a success that others had meanwhile.                *)
TimeOut(h) ==
  LET s == SourceOf(h) IN
  /\ call[h].pc \in {"asking", "answered"}
  /\ neg' = IF s \in Variants THEN [neg EXCEPT ![s] = Stored(call[h].age, NegTTL, call[h].age)]
                              ELSE neg
  /\ Raise(h, "timeout")
  /\ UNCHANGED cache

(* Another failure: an error status or no connection, or an answer that is *)
(* no JSON or does not parse.                                              *)
Fail(h) ==
  /\ \/ At(h, "asking") /\ Raise(h, "status")
     \/ At(h, "answered") /\ Raise(h, "unreadable")
  /\ UNCHANGED <<cache, neg>>

(* The page goes on to its next read, or is done. *)
GoOn(h) ==
  LET c == call[h] IN
  call' = [call EXCEPT ![h] =
    IF c.step < Len(Reads[c.page])
    THEN [c EXCEPT !.pc = "read", !.step = @ + 1, !.age = 0, !.outdated = None,
                   !.failure = None]
    ELSE Idle]

Got(h) ==
  /\ At(h, "got")
  /\ GoOn(h)
  /\ UNCHANGED <<cache, neg>>

(* except _FETCH_ERRORS: the client's errors and those of httpx; that of an *)
(* answer which is no JSON is neither.                                     *)
Caught(h) == ReadOf(h).soft /\ call[h].failure # "unreadable"

Raised(h) ==
  /\ At(h, "raised")
  /\ IF Caught(h) THEN GoOn(h)
     ELSE call' = [call EXCEPT ![h] = [pc |-> "failed"]]
  /\ UNCHANGED <<cache, neg>>

(* Somebody changes what Scoutnet says of a source. *)
Edit(s) ==
  LET Changed(a) == IF a.outdated = None THEN [a EXCEPT !.outdated = 0] ELSE a IN
  /\ cache' = [cache EXCEPT ![s] = IF @ = None THEN None ELSE Changed(@)]
  /\ call' = [h \in Handlers |->
       IF At(h, "answered") /\ SourceOf(h) = s THEN Changed(call[h]) ELSE call[h]]
  /\ UNCHANGED neg

Older(n) == IF n = None \/ n = Cap THEN n ELSE n + 1

Tick ==
  LET Aged(a) == [a EXCEPT !.age = Older(@), !.outdated = Older(@)] IN
  /\ cache' = [s \in Sources |->
       IF cache[s] = None THEN None ELSE Stored(Aged(cache[s]).age, TTL(s), Aged(cache[s]))]
  /\ neg' = [v \in Variants |->
       IF neg[v] = None THEN None ELSE Stored(neg[v] + 1, NegTTL, neg[v] + 1)]
  /\ call' = [h \in Handlers |->
       IF call[h].pc \in {"asking", "answered"} THEN Aged(call[h]) ELSE call[h]]

Step(h) ==
  \/ Serve(h) \/ Refuse(h) \/ Ask(h) \/ Reply(h) \/ Receive(h)
  \/ TimeOut(h) \/ Fail(h) \/ Got(h) \/ Raised(h)

Next ==
  \/ \E h \in Handlers : Step(h) \/ \E page \in Pages : Open(h, page)
  \/ \E s \in Sources : Edit(s)
  \/ Tick

Spec == Init /\ [][Next]_vars

(* Time passes; nobody has to ask or to answer. *)
FairSpec == Spec /\ WF_vars(Tick)

-----------------------------------------------------------------------------
(* Properties. *)

(* What a page is shown was Scoutnet's within the time a list is kept,     *)
(* however slowly an answer came and in whatever order answers came in     *)
(* ("a value cached up to 90 s ago", memberlist), unless the page waited   *)
(* longer for its own question.                                            *)
ShownIsRecent ==
  \A h \in Handlers : At(h, "got") /\ call[h].outdated # None =>
    call[h].outdated < TTL(SourceOf(h)) \/ call[h].outdated <= call[h].age

(* A fresh read returns what Scoutnet held after it was asked for, and     *)
(* nothing that another thread had stored: the drift check and the status  *)
(* echo of the executor rest on it (memberlist, "must see current data").  *)
FreshIsCurrent ==
  \A h \in Handlers : At(h, "got") /\ ReadOf(h).fresh /\ call[h].outdated # None =>
    call[h].outdated <= call[h].age

(* A timeout is remembered "for a short window", however often pages ask   *)
(* and are refused in it: unless Scoutnet times out again and again, each  *)
(* list is asked for again (_NEG_TTL_S).                                   *)
TimeoutsAreForgotten ==
  \A v \in Variants :
    []<>(neg[v] = None) \/ []<><<\E h \in Handlers : TimeOut(h)>>_vars
=============================================================================
