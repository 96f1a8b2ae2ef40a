------------------------- MODULE ScoutnetClientProofs -------------------------
(***************************************************************************)
(* What the client shows, for any number of request threads, any limits    *)
(* and any choice of pages: proofs about ScoutnetClient.                   *)
(***************************************************************************)
EXTENDS ScoutnetClient, TLAPS

(* Nothing has been outdated for longer than it was asked for: an answer   *)
(* held when it was given, which was after its question.                   *)
HeldOnceAsked(a) == a.outdated # None => a.outdated <= a.age

(* A thread that reads is at one of the reads of its page; what it got     *)
(* comes from its own question, or from an entry within its limit.         *)
Sound(c) ==
  LET read == Reads[c.page][c.step] IN
  /\ c.pc \notin {"idle", "failed"} => c.step \in 1..Len(Reads[c.page])
  /\ c.pc = "answered" => HeldOnceAsked(c)
  /\ c.pc = "got" /\ c.outdated # None =>
       \/ HeldOnceAsked(c)
       \/ ~read.fresh /\ c.outdated < TTL(read.of)
  /\ c.pc = "raised" => c.failure \in Failures

CacheInv == \A s \in Sources : cache[s] # None => HeldOnceAsked(cache[s])

CallInv == \A h \in Handlers : Sound(call[h])

ClientInv == ClientTypeOK /\ CacheInv /\ CallInv

-----------------------------------------------------------------------------
(* The limits and the reads of a page. *)

LEMMA CapFacts ==
  /\ Cap \in Nat
  /\ ListTTL <= Cap /\ OrgTTL <= Cap /\ NegTTL <= Cap
  <1>1. \E x \in {ListTTL, OrgTTL, NegTTL} : \A y \in {ListTTL, OrgTTL, NegTTL} : x >= y
    BY LimitsType
  <1>2. Cap \in {ListTTL, OrgTTL, NegTTL} /\ \A y \in {ListTTL, OrgTTL, NegTTL} : Cap >= y
    BY <1>1 DEF Cap, Max
  <1>3. QED
    BY <1>2, LimitsType

LEMMA ZeroIsAge == 0 \in Ages /\ Ages \subseteq Nat
  BY CapFacts DEF Ages

LEMMA TTLFacts ==
  ASSUME NEW s \in Sources
  PROVE  TTL(s) \in Nat \ {0} /\ TTL(s) <= Cap
  BY LimitsType, CapFacts DEF TTL

LEMMA ReadsType ==
  ASSUME NEW p \in Pages
  PROVE  /\ Len(Reads[p]) \in 1..4
         /\ \A i \in 1..Len(Reads[p]) : Reads[p][i] \in Read
  <1>1. p \in {"overview", "aggregate", "fortroende", "waiting", "drafts", "check",
               "register", "write"}
    BY PagesType DEF Reads
  <1> DEFINE Fits(q) == Len(q) \in 1..4 /\ \A i \in 1..Len(q) : q[i] \in Read
  <1>2. \A s \in Sources : Hard(s) \in Read /\ Soft(s) \in Read /\ Fresh(s) \in Read
    BY DEF Hard, Soft, Fresh, Read
  <1>3. {"active", "waiting", "awaiting_approval", "organisation"} \subseteq Sources
    BY DEF Sources, Variants
  <1>4. Fits(OverviewReads) /\ Fits(FortroendeReads) /\ Fits(WaitingReads) /\ Fits(DraftsReads)
    BY <1>2, <1>3 DEF OverviewReads, FortroendeReads, WaitingReads, DraftsReads
  <1>5. Fits(CheckReads) /\ Fits(RegisterReads) /\ Fits(WriteReads)
    BY <1>2, <1>3 DEF CheckReads, RegisterReads, WriteReads
  <1>6. Fits(AggregateReads)
    BY <1>2, <1>3 DEF OverviewReads, AggregateReads
  <1>7. QED
    BY <1>1, <1>4, <1>5, <1>6 DEF Reads

-----------------------------------------------------------------------------
(* What is known of one thread. *)

Call == {Idle} \cup Busy \cup Failed

LEMMA BusyFacts ==
  ASSUME ClientTypeOK, CallInv, NEW h \in Handlers, call[h].pc \notin {"idle", "failed"}
  PROVE  /\ call[h] \in Busy
         /\ call[h].step \in 1..Len(Reads[call[h].page])
         /\ ReadOf(h) \in Read /\ SourceOf(h) \in Sources
  <1>1. call[h] \in Busy
    BY DEF ClientTypeOK, Idle, Failed
  <1>2. call[h].step \in 1..Len(Reads[call[h].page])
    BY DEF CallInv, Sound
  <1>3. ReadOf(h) \in Read
    BY <1>1, <1>2, ReadsType DEF Busy, ReadOf
  <1>4. QED
    BY <1>1, <1>2, <1>3 DEF SourceOf, Read

(* An action that leaves a thread in a sound state keeps the threads'      *)
(* part of the invariant.                                                  *)
LEMMA Replaced ==
  ASSUME ClientInv, NEW h \in Handlers, NEW c \in Call, Sound(c),
         call' = [call EXCEPT ![h] = c]
  PROVE  call' \in [Handlers -> Call] /\ CallInv'
  <1>1. call \in [Handlers -> Call]
    BY DEF ClientInv, ClientTypeOK, Call
  <1>2. \A g \in Handlers : Sound(call'[g])
    BY <1>1 DEF ClientInv, CallInv
  <1>3. QED
    BY <1>1, <1>2 DEF CallInv

LEMMA Assembled ==
  ASSUME ClientInv, call' \in [Handlers -> Call], CallInv', UNCHANGED <<cache, neg>>
  PROVE  ClientInv'
  BY DEF ClientInv, ClientTypeOK, CacheInv, Call

LEMMA NextStep ==
  ASSUME NEW n \in 1..4, NEW i \in 1..n, i < n
  PROVE  i + 1 \in 1..4 /\ i + 1 \in 1..n
  OBVIOUS

LEMMA GoOnSound ==
  ASSUME ClientInv, NEW h \in Handlers, call[h].pc \notin {"idle", "failed"}, GoOn(h)
  PROVE  call' \in [Handlers -> Call] /\ CallInv'
  <1> DEFINE c == call[h]
             next == [c EXCEPT !.pc = "read", !.step = @ + 1, !.age = 0, !.outdated = None,
                               !.failure = None]
  <1>1. c \in Busy /\ c.step \in 1..Len(Reads[c.page]) /\ Len(Reads[c.page]) \in 1..4
    BY BusyFacts, ReadsType DEF ClientInv, Busy
  <1>2. CASE c.step < Len(Reads[c.page])
    <2>1. c.step + 1 \in 1..4 /\ c.step + 1 \in 1..Len(Reads[c.page])
      BY <1>1, <1>2, NextStep
    <2>5. next \in Busy /\ next.step = c.step + 1 /\ next.page = c.page /\ next.pc = "read"
      BY <1>1, <2>1, ZeroIsAge DEF Busy
    <2>2. next \in Call /\ Sound(next)
      BY <2>1, <2>5 DEF Call, Sound
    <2>3. call' = [call EXCEPT ![h] = next]
      BY <1>2 DEF GoOn
    <2>4. QED
      BY <2>2, <2>3, Replaced
  <1>3. CASE ~(c.step < Len(Reads[c.page]))
    <2>1. Idle \in Call /\ Sound(Idle)
      BY DEF Call, Sound, Idle
    <2>2. call' = [call EXCEPT ![h] = Idle]
      BY <1>3 DEF GoOn
    <2>3. QED
      BY <2>1, <2>2, Replaced
  <1>4. QED
    BY <1>2, <1>3

LEMMA RaiseSound ==
  ASSUME ClientInv, NEW h \in Handlers, call[h].pc \notin {"idle", "failed"},
         NEW failure \in Failures, Raise(h, failure)
  PROVE  call' \in [Handlers -> Call] /\ CallInv'
  <1> DEFINE c == [call[h] EXCEPT !.pc = "raised", !.age = 0, !.outdated = None,
                                  !.failure = failure]
  <1>1. call[h] \in Busy /\ call[h].step \in 1..Len(Reads[call[h].page])
    BY BusyFacts DEF ClientInv
  <1>2. /\ c \in Busy /\ c.step = call[h].step /\ c.page = call[h].page /\ c.pc = "raised"
        /\ c.failure = failure
    BY <1>1, ZeroIsAge DEF Busy
  <1>4. c \in Call /\ Sound(c)
    BY <1>1, <1>2 DEF Call, Sound
  <1>5. QED
    BY <1>4, Replaced DEF Raise

-----------------------------------------------------------------------------
(* Every action keeps the invariant. *)

LEMMA OpenKeeps ==
  ASSUME ClientInv, NEW h \in Handlers, NEW page \in Pages, Open(h, page)
  PROVE  ClientInv'
  <1> DEFINE c == [pc |-> "read", page |-> page, step |-> 1, age |-> 0, outdated |-> None,
                   failure |-> None]
  <1>1. c \in Call
    BY CapFacts DEF Call, Busy, Ages
  <1>2. c.pc = "read" /\ c.page = page /\ c.step = 1
    OBVIOUS
  <1>3. 1 \in 1..Len(Reads[page])
    BY ReadsType
  <1>4. call' = [call EXCEPT ![h] = c] /\ UNCHANGED <<cache, neg>>
    BY DEF Open
  <1> HIDE DEF c
  <1>5. Sound(c)
    BY <1>2, <1>3 DEF Sound
  <1>6. QED
    BY <1>1, <1>4, <1>5, Replaced, Assembled

(* A thread that stays with its read. *)
LEMMA Progress ==
  ASSUME ClientInv, NEW h \in Handlers, call[h].pc \notin {"idle", "failed"},
         NEW pc \in {"asking", "answered", "got"},
         NEW age \in Ages, NEW outdated \in Ages \cup {None},
         outdated # None =>
           \/ pc = "asking" \/ outdated <= age
           \/ pc = "got" /\ ~ReadOf(h).fresh /\ outdated < TTL(SourceOf(h)),
         call' = [call EXCEPT ![h] =
                   [call[h] EXCEPT !.pc = pc, !.age = age, !.outdated = outdated]]
  PROVE  call' \in [Handlers -> Call] /\ CallInv'
  <1> DEFINE b == call[h]
             c == [b EXCEPT !.pc = pc, !.age = age, !.outdated = outdated]
  <1>1. b \in Busy /\ b.step \in 1..Len(Reads[b.page])
    BY BusyFacts DEF ClientInv
  <1>2. ReadOf(h) = Reads[b.page][b.step] /\ SourceOf(h) = Reads[b.page][b.step].of
    BY DEF ReadOf, SourceOf
  <1>3. call' = [call EXCEPT ![h] = c]
    OBVIOUS
  <1> HIDE DEF b
  <1>4. /\ c \in Busy /\ c.pc = pc /\ c.page = b.page /\ c.step = b.step
        /\ c.age = age /\ c.outdated = outdated
    BY <1>1 DEF Busy
  <1> HIDE DEF c
  <1>5. Sound(c)
    <2>1. c.step \in 1..Len(Reads[c.page])
      BY <1>1, <1>4
    <2>2. Reads[c.page][c.step] = ReadOf(h) /\ Reads[c.page][c.step].of = SourceOf(h)
      BY <1>2, <1>4
    <2>3. ASSUME c.pc # "asking", c.outdated # None
          PROVE  \/ c.outdated <= c.age
                 \/ c.pc = "got" /\ ~ReadOf(h).fresh /\ c.outdated < TTL(SourceOf(h))
      BY <1>4, <2>3
    <2>4. c.pc \in {"asking", "answered", "got"}
      BY <1>4
    <2>5. c.pc = "answered" => HeldOnceAsked(c)
      BY <2>3, <2>4 DEF HeldOnceAsked
    <2>6. c.pc = "got" /\ c.outdated # None =>
            \/ HeldOnceAsked(c)
            \/ ~Reads[c.page][c.step].fresh /\ c.outdated < TTL(Reads[c.page][c.step].of)
      BY <2>2, <2>3, <2>4 DEF HeldOnceAsked
    <2>7. QED
      BY <2>1, <2>4, <2>5, <2>6 DEF Sound
  <1>6. QED
    BY <1>3, <1>4, <1>5, Replaced DEF Call

LEMMA ServeKeeps ==
  ASSUME ClientInv, NEW h \in Handlers, Serve(h)
  PROVE  ClientInv'
  <1> DEFINE s == SourceOf(h)
             o == cache[s].outdated
  <1>0. call[h].pc \notin {"idle", "failed"}
    BY DEF Serve, At
  <1>1. call[h].pc \notin {"idle", "failed"} /\ call[h] \in Busy /\ s \in Sources
    BY <1>0, BusyFacts DEF ClientInv
  <1>2. cache[s] \in Answer /\ cache[s].age < TTL(s) /\ HeldOnceAsked(cache[s])
    BY <1>1 DEF ClientInv, ClientTypeOK, CacheInv, Serve, Kept
  <1>3. o \in Ages \cup {None} /\ (o # None => o < TTL(s))
    <2>1. o \in Ages \cup {None} /\ cache[s].age \in Nat
      BY <1>2, ZeroIsAge DEF Answer
    <2>2. o # None => o \in Nat /\ o <= cache[s].age
      BY <1>2, <2>1, ZeroIsAge DEF HeldOnceAsked
    <2>3. TTL(s) \in Nat
      BY <1>1, TTLFacts
    <2>4. QED
      BY <1>2, <2>1, <2>2, <2>3
  <1>4. call' = [call EXCEPT ![h] = [call[h] EXCEPT !.pc = "got", !.age = 0, !.outdated = o]]
    BY DEF Serve
  <1>5. ~ReadOf(h).fresh /\ UNCHANGED <<cache, neg>>
    BY DEF Serve, Kept
  <1> HIDE DEF s, o
  <1>6. call' \in [Handlers -> Call] /\ CallInv'
    BY <1>1, <1>3, <1>4, <1>5, ZeroIsAge, Progress DEF s
  <1>7. QED
    BY <1>5, <1>6, Assembled

LEMMA AskKeeps ==
  ASSUME ClientInv, NEW h \in Handlers, Ask(h)
  PROVE  ClientInv'
  <1> DEFINE b == call[h]
  <1>1. b.pc \notin {"idle", "failed"} /\ b \in Busy
    BY BusyFacts DEF ClientInv, Ask, At
  <1>2. call' = [call EXCEPT ![h] = [b EXCEPT !.pc = "asking", !.age = 0]]
    BY DEF Ask
  <1> HIDE DEF b
  <1>3. /\ b.outdated \in Ages \cup {None}
        /\ [b EXCEPT !.pc = "asking", !.age = 0]
             = [b EXCEPT !.pc = "asking", !.age = 0, !.outdated = b.outdated]
    BY <1>1 DEF Busy
  <1>4. call' \in [Handlers -> Call] /\ CallInv'
    BY <1>1, <1>2, <1>3, ZeroIsAge, Progress DEF b
  <1>5. QED
    BY <1>4, Assembled DEF Ask

LEMMA ReplyKeeps ==
  ASSUME ClientInv, NEW h \in Handlers, Reply(h)
  PROVE  ClientInv'
  <1> DEFINE b == call[h]
  <1>1. b.pc \notin {"idle", "failed"} /\ b \in Busy
    BY BusyFacts DEF ClientInv, Reply, At
  <1>2. call' = [call EXCEPT ![h] = [b EXCEPT !.pc = "answered", !.outdated = None]]
    BY DEF Reply
  <1> HIDE DEF b
  <1>3. /\ b.age \in Ages
        /\ [b EXCEPT !.pc = "answered", !.outdated = None]
             = [b EXCEPT !.pc = "answered", !.age = b.age, !.outdated = None]
    BY <1>1 DEF Busy
  <1>4. call' \in [Handlers -> Call] /\ CallInv'
    BY <1>1, <1>2, <1>3, Progress DEF b
  <1>5. QED
    BY <1>4, Assembled DEF Reply

(* What is stored keeps the cache's part of the invariant. *)
LEMMA StoredFacts ==
  ASSUME NEW a \in Answer, HeldOnceAsked(a), NEW s \in Sources
  PROVE  LET e == Stored(a.age, TTL(s), a) IN
         e \in Answer \cup {None} /\ (e # None => e.age < TTL(s) /\ HeldOnceAsked(e))
  BY DEF Stored

LEMMA ReceiveKeeps ==
  ASSUME ClientInv, NEW h \in Handlers, Receive(h)
  PROVE  ClientInv'
  <1> DEFINE s == SourceOf(h)
             b == call[h]
             a == [age |-> b.age, outdated |-> b.outdated]
             e == Stored(b.age, TTL(s), a)
  <1>1. b.pc = "answered" /\ b \in Busy /\ s \in Sources
    BY BusyFacts DEF ClientInv, Receive, At
  <1>2. HeldOnceAsked(b)
    BY <1>1 DEF ClientInv, CallInv, Sound
  <1>3. call' = [call EXCEPT ![h] = [b EXCEPT !.pc = "got"]]
    BY DEF Receive
  <1>4. cache' = [cache EXCEPT ![s] = e]
    BY DEF Receive
  <1>5. neg' = IF s \in Variants THEN [neg EXCEPT ![s] = None] ELSE neg
    BY DEF Receive
  <1> HIDE DEF b, s
  <1>6. /\ b.age \in Ages /\ b.outdated \in Ages \cup {None}
        /\ [b EXCEPT !.pc = "got"]
             = [b EXCEPT !.pc = "got", !.age = b.age, !.outdated = b.outdated]
    BY <1>1 DEF Busy
  <1>7. call' \in [Handlers -> Call] /\ CallInv'
    BY <1>1, <1>2, <1>3, <1>6, Progress DEF b, HeldOnceAsked
  <1>8. a \in Answer /\ HeldOnceAsked(a) /\ a.age = b.age
    BY <1>2, <1>6 DEF Answer, HeldOnceAsked
  <1>9. e \in Answer \cup {None} /\ (e # None => e.age < TTL(s) /\ HeldOnceAsked(e))
    BY <1>1, <1>8, StoredFacts
  <1> HIDE DEF e
  <1>10. /\ cache' \in [Sources -> Answer \cup {None}]
         /\ \A r \in Sources : cache'[r] # None =>
              cache'[r].age < TTL(r) /\ HeldOnceAsked(cache'[r])
    BY <1>1, <1>4, <1>9 DEF ClientInv, ClientTypeOK, CacheInv
  <1>11. neg' \in [Variants -> 0..NegTTL - 1 \cup {None}]
    BY <1>5 DEF ClientInv, ClientTypeOK
  <1>12. QED
    BY <1>7, <1>10, <1>11 DEF ClientInv, ClientTypeOK, CacheInv, Call

LEMMA TimeOutKeeps ==
  ASSUME ClientInv, NEW h \in Handlers, TimeOut(h)
  PROVE  ClientInv'
  <1> DEFINE s == SourceOf(h)
             e == Stored(call[h].age, NegTTL, call[h].age)
  <1>1. call[h].pc \notin {"idle", "failed"} /\ call[h] \in Busy
    BY BusyFacts DEF ClientInv, TimeOut
  <1>2. call[h].age \in Nat
    BY <1>1, ZeroIsAge DEF Busy
  <1>3. e \in 0..NegTTL - 1 \cup {None}
    BY <1>2, LimitsType DEF Stored
  <1>4. neg' \in [Variants -> 0..NegTTL - 1 \cup {None}]
    BY <1>3 DEF TimeOut, ClientInv, ClientTypeOK
  <1>5. call' \in [Handlers -> Call] /\ CallInv'
    BY <1>1, RaiseSound DEF TimeOut, Failures
  <1>6. QED
    BY <1>4, <1>5 DEF TimeOut, ClientInv, ClientTypeOK, CacheInv, Call

LEMMA RaisedKeeps ==
  ASSUME ClientInv, NEW h \in Handlers, Raised(h)
  PROVE  ClientInv'
  <1> DEFINE c == [pc |-> "failed"]
  <1>1. call[h].pc = "raised" /\ call[h] \in Busy /\ ReadOf(h) \in Read
    BY BusyFacts DEF ClientInv, Raised, At
  <1>2. CASE Caught(h)
    BY <1>1, <1>2, GoOnSound, Assembled DEF Raised
  <1>3. CASE ~Caught(h)
    <2>1. call' = [call EXCEPT ![h] = c]
      BY <1>3 DEF Raised
    <2>2. Sound(c)
      BY DEF Sound
    <2>3. c \in Call
      BY DEF Call, Failed
    <2>4. QED
      BY <2>1, <2>2, <2>3, Replaced, Assembled DEF Raised
  <1>4. QED
    BY <1>2, <1>3

LEMMA GotKeeps ==
  ASSUME ClientInv, NEW h \in Handlers, Got(h)
  PROVE  ClientInv'
  <1>1. call[h].pc \notin {"idle", "failed"}
    BY DEF Got, At
  <1>2. QED
    BY <1>1, GoOnSound, Assembled DEF Got

LEMMA RefuseKeeps ==
  ASSUME ClientInv, NEW h \in Handlers, Refuse(h)
  PROVE  ClientInv'
  <1>1. call[h].pc \notin {"idle", "failed"} /\ "refused" \in Failures
    BY DEF Refuse, At, Failures
  <1>2. QED
    BY <1>1, RaiseSound, Assembled DEF Refuse

LEMMA FailKeeps ==
  ASSUME ClientInv, NEW h \in Handlers, Fail(h)
  PROVE  ClientInv'
  <1>1. call[h].pc \notin {"idle", "failed"}
    BY DEF Fail, At
  <1>2. \E failure \in Failures : Raise(h, failure)
    BY DEF Fail, Failures
  <1>3. QED
    BY <1>1, <1>2, RaiseSound, Assembled DEF Fail

(* A change of every thread that leaves each where it is, and neither      *)
(* makes what an answer says older than its question nor touches the rest. *)
LEMMA AllKept ==
  ASSUME ClientInv,
         call' \in [Handlers -> Call],
         \A h \in Handlers :
           \/ call'[h] = call[h]
           \/ /\ call[h] \in Busy /\ call'[h] \in Busy
              /\ call[h].pc \in {"asking", "answered"}
              /\ call'[h].pc = call[h].pc /\ call'[h].page = call[h].page
              /\ call'[h].step = call[h].step
              /\ HeldOnceAsked(call[h]) => HeldOnceAsked(call'[h])
  PROVE  CallInv'
  <1> SUFFICES ASSUME NEW h \in Handlers
               PROVE  Sound(call'[h])
    BY DEF CallInv
  <1>1. Sound(call[h])
    BY DEF ClientInv, CallInv
  <1>2. CASE call'[h] = call[h]
    BY <1>1, <1>2
  <1>3. CASE call'[h] # call[h]
    BY <1>1, <1>3 DEF Sound
  <1>4. QED
    BY <1>2, <1>3

(* What somebody changes just now has been outdated for no time at all.    *)
LEMMA ChangedFacts ==
  ASSUME NEW age \in Ages
  PROVE  0 \in Ages /\ 0 <= age
  BY ZeroIsAge

LEMMA EditKeeps ==
  ASSUME ClientInv, NEW s \in Sources, Edit(s)
  PROVE  ClientInv'
  <1> DEFINE Changed(a) == IF a.outdated = None THEN [a EXCEPT !.outdated = 0] ELSE a
  <1>1. ASSUME NEW a \in Answer
        PROVE  /\ Changed(a) \in Answer /\ Changed(a).age = a.age
               /\ HeldOnceAsked(a) => HeldOnceAsked(Changed(a))
    BY ChangedFacts DEF Answer, HeldOnceAsked
  <1>2. ASSUME NEW c \in Busy
        PROVE  /\ Changed(c) \in Busy /\ Changed(c).pc = c.pc /\ Changed(c).page = c.page
               /\ Changed(c).step = c.step
               /\ HeldOnceAsked(c) => HeldOnceAsked(Changed(c))
    BY ChangedFacts DEF Busy, HeldOnceAsked
  <1>3. cache' = [cache EXCEPT ![s] = IF @ = None THEN None ELSE Changed(@)]
    BY DEF Edit
  <1>4. call' = [h \in Handlers |->
          IF At(h, "answered") /\ SourceOf(h) = s THEN Changed(call[h]) ELSE call[h]]
    BY DEF Edit
  <1> HIDE DEF Changed
  <1>5. /\ cache' \in [Sources -> Answer \cup {None}]
        /\ \A r \in Sources : cache'[r] # None =>
             cache'[r].age < TTL(r) /\ HeldOnceAsked(cache'[r])
    BY <1>1, <1>3 DEF ClientInv, ClientTypeOK, CacheInv
  <1>6. ASSUME NEW h \in Handlers
        PROVE  /\ call'[h] \in Call
               /\ \/ call'[h] = call[h]
                  \/ /\ call[h] \in Busy /\ call'[h] \in Busy
                     /\ call[h].pc \in {"asking", "answered"}
                     /\ call'[h].pc = call[h].pc /\ call'[h].page = call[h].page
                     /\ call'[h].step = call[h].step
                     /\ HeldOnceAsked(call[h]) => HeldOnceAsked(call'[h])
    <2>1. CASE At(h, "answered") /\ SourceOf(h) = s
      <3>1. call[h] \in Busy
        BY <2>1, BusyFacts DEF ClientInv, At
      <3>2. call'[h] = Changed(call[h])
        BY <1>4, <2>1
      <3>3. QED
        BY <1>2, <2>1, <3>1, <3>2 DEF At, Call
    <2>2. CASE ~(At(h, "answered") /\ SourceOf(h) = s)
      BY <1>4, <2>2 DEF ClientInv, ClientTypeOK, Call
    <2>3. QED
      BY <2>1, <2>2
  <1>7. call' \in [Handlers -> Call]
    BY <1>4, <1>6
  <1>8. CallInv'
    BY <1>6, <1>7, AllKept
  <1>9. QED
    BY <1>5, <1>7, <1>8 DEF ClientInv, ClientTypeOK, CacheInv, Call, Edit

(* Time passes alike for the question and for what made its answer old.    *)
LEMMA OlderFacts ==
  /\ \A n \in Ages : Older(n) \in Ages
  /\ Older(None) = None
  /\ \A n \in Ages \cup {None}, m \in Ages :
       (n # None => n <= m) => (Older(n) # None => Older(n) <= Older(m))
  <1>1. \A n \in Ages : n # None
    BY ZeroIsAge, NoneIsNoNumber
  <1>2. QED
    BY <1>1, CapFacts DEF Older, Ages

LEMMA TickKeeps ==
  ASSUME ClientInv, Tick
  PROVE  ClientInv'
  <1> DEFINE Aged(a) == [a EXCEPT !.age = Older(@), !.outdated = Older(@)]
  <1>0. \A n \in Ages \cup {None} : Older(n) \in Ages \cup {None}
    BY OlderFacts
  <1>1. ASSUME NEW a \in Answer
        PROVE  Aged(a) \in Answer /\ (HeldOnceAsked(a) => HeldOnceAsked(Aged(a)))
    <2>1. a.age \in Ages /\ a.outdated \in Ages \cup {None}
      BY DEF Answer
    <2>2. /\ Aged(a) \in Answer
          /\ Aged(a).age = Older(a.age) /\ Aged(a).outdated = Older(a.outdated)
      BY <1>0, <2>1, OlderFacts DEF Answer
    <2>3. QED
      BY <2>1, <2>2, OlderFacts DEF HeldOnceAsked
  <1>2. ASSUME NEW c \in Busy
        PROVE  /\ Aged(c) \in Busy /\ Aged(c).pc = c.pc /\ Aged(c).page = c.page
               /\ Aged(c).step = c.step
               /\ HeldOnceAsked(c) => HeldOnceAsked(Aged(c))
    <2>1. c.age \in Ages /\ c.outdated \in Ages \cup {None}
      BY DEF Busy
    <2>2. /\ Aged(c) \in Busy /\ Aged(c).pc = c.pc /\ Aged(c).page = c.page
          /\ Aged(c).step = c.step
          /\ Aged(c).age = Older(c.age) /\ Aged(c).outdated = Older(c.outdated)
      BY <1>0, <2>1, OlderFacts DEF Busy
    <2>3. QED
      BY <2>1, <2>2, OlderFacts DEF HeldOnceAsked
  <1>3. cache' = [s \in Sources |->
          IF cache[s] = None THEN None ELSE Stored(Aged(cache[s]).age, TTL(s), Aged(cache[s]))]
    BY DEF Tick
  <1>4. call' = [h \in Handlers |->
          IF call[h].pc \in {"asking", "answered"} THEN Aged(call[h]) ELSE call[h]]
    BY DEF Tick
  <1> HIDE DEF Aged
  <1>5. ASSUME NEW s \in Sources
        PROVE  /\ cache'[s] \in Answer \cup {None}
               /\ cache'[s] # None => cache'[s].age < TTL(s) /\ HeldOnceAsked(cache'[s])
    <2>1. CASE cache[s] = None
      BY <1>3, <2>1
    <2>2. CASE cache[s] # None
      <3>1. cache[s] \in Answer /\ HeldOnceAsked(cache[s])
        BY <2>2 DEF ClientInv, ClientTypeOK, CacheInv
      <3>2. cache'[s] = Stored(Aged(cache[s]).age, TTL(s), Aged(cache[s]))
        BY <1>3, <2>2
      <3>3. QED
        BY <1>1, <3>1, <3>2 DEF Stored
    <2>3. QED
      BY <2>1, <2>2
  <1>6. neg' \in [Variants -> 0..NegTTL - 1 \cup {None}]
    <2>1. \A v \in Variants : neg[v] \in 0..NegTTL - 1 \cup {None}
      BY DEF ClientInv, ClientTypeOK
    <2>2. neg' = [v \in Variants |->
            IF neg[v] = None THEN None ELSE Stored(neg[v] + 1, NegTTL, neg[v] + 1)]
      BY DEF Tick
    <2>3. \A n \in 0..NegTTL - 1 : Stored(n + 1, NegTTL, n + 1) \in 0..NegTTL - 1 \cup {None}
      BY LimitsType DEF Stored
    <2>4. QED
      BY <2>1, <2>2, <2>3
  <1>7. ASSUME NEW h \in Handlers
        PROVE  /\ call'[h] \in Call
               /\ \/ call'[h] = call[h]
                  \/ /\ call[h] \in Busy /\ call'[h] \in Busy
                     /\ call[h].pc \in {"asking", "answered"}
                     /\ call'[h].pc = call[h].pc /\ call'[h].page = call[h].page
                     /\ call'[h].step = call[h].step
                     /\ HeldOnceAsked(call[h]) => HeldOnceAsked(call'[h])
    <2>1. CASE call[h].pc \in {"asking", "answered"}
      <3>1. call[h] \in Busy
        BY <2>1, BusyFacts DEF ClientInv
      <3>2. call'[h] = Aged(call[h])
        BY <1>4, <2>1
      <3>3. QED
        BY <1>2, <2>1, <3>1, <3>2 DEF Call
    <2>2. CASE ~(call[h].pc \in {"asking", "answered"})
      BY <1>4, <2>2 DEF ClientInv, ClientTypeOK, Call
    <2>3. QED
      BY <2>1, <2>2
  <1>8. call' \in [Handlers -> Call]
    BY <1>4, <1>7
  <1>9. CallInv'
    BY <1>7, <1>8, AllKept
  <1>10. cache' \in [Sources -> Answer \cup {None}]
    BY <1>3, <1>5
  <1>11. QED
    BY <1>5, <1>6, <1>8, <1>9, <1>10 DEF ClientInv, ClientTypeOK, CacheInv, Call

LEMMA ClientStarts == Init => ClientInv
  BY DEF Init, ClientInv, ClientTypeOK, CacheInv, CallInv, Sound, Idle

LEMMA ClientSteps == ClientInv /\ [Next]_vars => ClientInv'
  <1> SUFFICES ASSUME ClientInv, [Next]_vars
               PROVE  ClientInv'
    OBVIOUS
  <1>1. ASSUME NEW h \in Handlers, Step(h)
        PROVE  ClientInv'
    BY <1>1, ServeKeeps, RefuseKeeps, AskKeeps, ReplyKeeps, ReceiveKeeps, TimeOutKeeps,
       FailKeeps, GotKeeps, RaisedKeeps DEF Step
  <1>2. ASSUME NEW h \in Handlers, NEW page \in Pages, Open(h, page)
        PROVE  ClientInv'
    BY <1>2, OpenKeeps
  <1>3. ASSUME NEW s \in Sources, Edit(s)
        PROVE  ClientInv'
    BY <1>3, EditKeeps
  <1>4. CASE Tick
    BY <1>4, TickKeeps
  <1>5. CASE UNCHANGED vars
    BY <1>5 DEF vars, ClientInv, ClientTypeOK, CacheInv, CallInv
  <1>6. QED
    BY <1>1, <1>2, <1>3, <1>4, <1>5 DEF Next

-----------------------------------------------------------------------------
(* Theorems. *)

(* The caches and the threads keep their types, and with them what the     *)
(* others rest on: nothing kept, on its way or got has been out of date    *)
(* for longer than its own question, or the limit of the entry it came     *)
(* from, is old (memberlist, organisation).                                *)
THEOREM AnswersAreSound == Spec => []ClientInv
  BY ClientStarts, ClientSteps, PTL DEF Spec

(* What a page is shown was Scoutnet's within the time its list is kept,   *)
(* whichever threads asked, answered and timed out meanwhile.              *)
THEOREM PagesAreRecent == Spec => []ShownIsRecent
  <1>1. ClientInv => ShownIsRecent
    BY DEF ClientInv, CallInv, Sound, HeldOnceAsked, ShownIsRecent, At, ReadOf, SourceOf
  <1>2. QED
    BY <1>1, AnswersAreSound, PTL

(* The executor's re-read sees nothing that is older than itself, whatever *)
(* another thread stores while it is on its way.                           *)
THEOREM RereadsAreCurrent == Spec => []FreshIsCurrent
  <1>1. ClientInv => FreshIsCurrent
    BY DEF ClientInv, CallInv, Sound, HeldOnceAsked, FreshIsCurrent, At, ReadOf
  <1>2. QED
    BY <1>1, AnswersAreSound, PTL
=============================================================================
