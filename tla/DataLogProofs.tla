--------------------------- MODULE DataLogProofs ---------------------------
(***************************************************************************)
(* Theorems about DataLog, for any number of streams, every size of the    *)
(* buffers, files and messages, and any number of cuts, restarts and       *)
(* failing calls.                                                          *)
(***************************************************************************)
EXTENDS DataLog, SequenceTheorems, TLAPS

-----------------------------------------------------------------------------
(* The inductive invariant.                                                *)

\* The types, with the histories.
Typed ==
  /\ TypeOK
  /\ accepted \in [StreamSet -> SUBSET Int] /\ skipped \in [StreamSet -> SUBSET Int]
  /\ unsaved \in [StreamSet -> BOOLEAN] /\ torn \in [Tasks -> BOOLEAN] /\ clean \in BOOLEAN
  /\ cuts \in Nat /\ faults \in Nat

\* What a task is to do is in order: the two halves of a cursor are saved one after the
\* other, a message that was sent is all there is to count, and a restart is the last of
\* all.
InOrder(q) ==
  \A i \in 1..Len(q) :
    /\ q[i].op = "save_file" => i = 1 \/ q[i - 1] = Op("save_offset", q[i].of)
    /\ q[i].op = "save_offset" => i < Len(q) /\ q[i + 1] = Op("save_file", q[i].of)
    /\ q[i].op = "advance" => Len(q) = 1
    /\ q[i].op = "restart" => i = Len(q)

Ordered == \A t \in Tasks : InOrder(agenda[t])

\* The main loop is only upset while it saves or counts.
TornBusy ==
  torn["loop"] => \E s \in StreamSet : Doing("loop", "save_file", s) \/ Doing("loop", "advance", s)

\* All before the number n that is on the flash was sent, or counts as lost.
SentUpTo(s, n) == \A k \in OnFlashNumbers(s) : k < n => k \in accepted[s] \cup skipped[s]

\* The cursor is within its file, and will be when the message that was sent counts. If
\* the file it was read from is gone, the cursor is at the beginning of another one.
Placed(s) ==
  /\ cursor[s].file = 1 => cursor[s].offset + InFlight(s) <= CurrentLength(s)
  /\ cursor[s].file = 0 => OldLength(s) = 0 \/ cursor[s].offset + InFlight(s) <= OldLength(s)
  /\ Doing("loop", "advance", s) /\ torn["loop"] => cursor[s].file = 0 /\ cursor[s].offset = 0

\* The saved cursor is not ahead of it, as long as NVS has the file the cursor is in. The
\* file of an older cursor and the offset of a newer one may meet in NVS: it is the
\* older file, and the cursor has left it.
SavedTrue(s) ==
  ~unsaved[s] =>
    /\ nvs[s].file = 1 => cursor[s].file = 1 /\ nvs[s].offset <= CurrentLength(s)
    /\ nvs[s].offset <= LengthAt(s, nvs[s]) => Position(s, nvs[s]) <= NextToSend(s)

\* Nothing from the cursor on was sent, while nothing has moved it back.
SentBefore(s) == clean => \A n \in accepted[s] : n < NextToSend(s)

\* Between the two halves of a save the cursor may move on in its file, if it is the web
\* server's task that saves.
HalfSaved(t, s) ==
  Doing(t, "save_file", s) /\ ~torn[t] =>
    /\ nvs[s].offset <= cursor[s].offset
    /\ t = "loop" => nvs[s].offset = cursor[s].offset

\* What on_stop has saved is where the cursor is.
WebSaved(s) ==
  clean /\ Late(s) =>
    IF Doing("web", "save_file", s) THEN torn["web"] \/ nvs[s].offset = cursor[s].offset
    ELSE unsaved[s] \/ nvs[s] = cursor[s]

Tracked(s) ==
  /\ Placed(s) /\ SentUpTo(s, NextToSend(s)) /\ SavedTrue(s) /\ SentBefore(s)
  /\ HalfSaved("loop", s) /\ HalfSaved("web", s) /\ WebSaved(s)

Inv == Typed /\ Ordered /\ TornBusy /\ \A s \in StreamSet : Tracked(s)

-----------------------------------------------------------------------------
(* Agendas.                                                                *)

Has(q, x) == \E i \in 1..Len(q) : q[i] = x

\* What may be put before the rest of an agenda, and be the rest.
Plain(q) ==
  /\ q \in Seq(Ops) /\ InOrder(q)
  /\ \A i \in 1..Len(q) : q[i].op \notin {"advance", "restart"}
  /\ q # << >> => Head(q).op # "save_file"

Rest(q) ==
  /\ q \in Seq(Ops) /\ InOrder(q)
  /\ \A i \in 1..Len(q) : q[i].op # "advance"

LEMMA TailInOrder ==
  ASSUME NEW q \in Seq(Ops), q # << >>, InOrder(q)
  PROVE  /\ Rest(Tail(q)) /\ Head(q) = q[1] /\ Head(q) \in Ops
         /\ Head(q).op # "save_offset" /\ Tail(q) # << >> => Head(Tail(q)).op # "save_file"
         /\ Head(q).op = "save_offset" =>
              Tail(q) # << >> /\ Head(Tail(q)) = Op("save_file", Head(q).of)
         /\ \A x \in Ops : Has(q, x) => x = Head(q) \/ Has(Tail(q), x)
         /\ Head(q).op = "restart" => q = <<Head(q)>>
<1> DEFINE r == Tail(q)
<1>1. /\ r \in Seq(Ops) /\ Len(q) \in Nat \ {0} /\ Len(r) = Len(q) - 1
      /\ \A i \in 1..Len(r) : r[i] = q[i + 1]
      /\ Head(q) = q[1] /\ q[1] \in Ops
  BY HeadTailProperties, EmptySeq
<1> HIDE DEF r
<1>2. \A i \in 1..Len(r) : i + 1 \in 1..Len(q)
  BY <1>1
<1>3. r # << >> <=> Len(q) > 1
  <2>1. r = << >> => Len(r) = 0
    BY EmptySeq
  <2>2. r # << >> => Len(r) \in Nat \ {0}
    BY <1>1, EmptySeq
  <2> QED
    BY <1>1, <2>1, <2>2
<1>4. r # << >> => Head(r) = q[2] /\ 2 \in 1..Len(q)
  BY <1>1, <1>3
<1>5. ASSUME NEW i \in 1..Len(q), i # 1 PROVE i - 1 \in 1..Len(r) /\ r[i - 1] = q[i]
  <2>1. i - 1 \in 1..Len(r) /\ (i - 1) + 1 = i
    BY <1>1, <1>5
  <2> QED
    BY <1>1, <2>1
<1>6. InOrder(r)
  <2>1. ASSUME NEW i \in 1..Len(r), r[i].op = "save_file", i # 1
        PROVE  r[i - 1] = Op("save_offset", r[i].of)
    <3>1. i + 1 \in 1..Len(q) /\ i \in 1..Len(q) /\ i + 1 # 1 /\ (i + 1) - 1 = i
      BY <1>1, <1>2
    <3> QED
      BY <1>1, <1>5, <2>1, <3>1 DEF InOrder
  <2>2. ASSUME NEW i \in 1..Len(r), r[i].op = "save_offset"
        PROVE  i < Len(r) /\ r[i + 1] = Op("save_file", r[i].of)
    <3>1. i + 1 \in 1..Len(q) /\ i + 1 < Len(q) /\ q[(i + 1) + 1] = Op("save_file", q[i + 1].of)
      BY <1>1, <1>2, <2>2 DEF InOrder
    <3> QED
      BY <1>1, <3>1
  <2>3. ASSUME NEW i \in 1..Len(r), r[i].op = "restart" PROVE i = Len(r)
    BY <1>1, <1>2, <2>3 DEF InOrder
  <2>4. ASSUME NEW i \in 1..Len(r), r[i].op = "advance" PROVE FALSE
    BY <1>1, <1>2, <2>4 DEF InOrder
  <2> QED
    BY <2>1, <2>2, <2>3, <2>4 DEF InOrder
<1>7. Rest(r)
  <2>1. ASSUME NEW i \in 1..Len(r), r[i].op = "advance" PROVE FALSE
    BY <1>1, <1>2, <2>1 DEF InOrder
  <2> QED
    BY <1>1, <1>6, <2>1 DEF Rest
<1>8. ASSUME q[1].op # "save_offset", r # << >>, q[2].op = "save_file" PROVE FALSE
  <2>1. q[2 - 1] = Op("save_offset", q[2].of)
    BY <1>4, <1>8 DEF InOrder
  <2> QED
    BY <1>8, <2>1 DEF Op
<1>9. ASSUME q[1].op = "save_offset" PROVE r # << >> /\ q[2] = Op("save_file", q[1].of)
  BY <1>1, <1>3, <1>9 DEF InOrder
<1>10. ASSUME NEW x \in Ops, Has(q, x) PROVE x = q[1] \/ Has(r, x)
  BY <1>5, <1>10 DEF Has
<1>11. ASSUME q[1].op = "restart" PROVE q = <<q[1]>>
  <2>1. Len(q) = 1
    BY <1>1, <1>11 DEF InOrder
  <2> QED
    BY <1>1, <2>1
<1> QED
  BY <1>1, <1>4, <1>7, <1>8, <1>9, <1>10, <1>11 DEF r

LEMMA Concatenated ==
  ASSUME NEW p, NEW q, Plain(p), Rest(q), q # << >> => Head(q).op # "save_file"
  PROVE  /\ Rest(p \o q)
         /\ p \o q # << >> => Head(p \o q).op \notin {"save_file", "advance"}
         /\ \A x \in Ops : Has(p, x) \/ Has(q, x) => Has(p \o q, x)
<1> DEFINE r == p \o q
           n == Len(p)
           m == Len(q)
<1>1. /\ p \in Seq(Ops) /\ q \in Seq(Ops) /\ InOrder(p) /\ InOrder(q) /\ n \in Nat /\ m \in Nat
      /\ \A i \in 1..n : p[i].op \notin {"advance", "restart"}
      /\ \A i \in 1..m : q[i].op # "advance"
      /\ p # << >> => Head(p).op # "save_file"
  BY DEF Plain, Rest
<1>2. /\ r \in Seq(Ops) /\ Len(r) = n + m
      /\ \A i \in 1..n + m : r[i] = IF i <= n THEN p[i] ELSE q[i - n]
  BY <1>1, ConcatProperties
<1>3. /\ n >= 1 => p # << >> /\ Head(p) = p[1]
      /\ m >= 1 => q # << >> /\ Head(q) = q[1]
      /\ r # << >> => n + m >= 1 /\ Head(r) = r[1]
  BY <1>1, <1>2, EmptySeq
<1> HIDE DEF r, n, m
<1>4. Rest(r)
  <2> SUFFICES ASSUME NEW i \in 1..n + m
               PROVE  /\ r[i].op = "save_file" => i = 1 \/ r[i - 1] = Op("save_offset", r[i].of)
                      /\ r[i].op = "save_offset" =>
                           i < n + m /\ r[i + 1] = Op("save_file", r[i].of)
                      /\ r[i].op # "advance"
                      /\ r[i].op = "restart" => i = n + m
    BY <1>2 DEF InOrder, Rest
  <2>1. CASE i <= n
    <3>1. i \in 1..n /\ r[i] = p[i]
      BY <1>1, <1>2, <2>1
    <3>2. i # 1 => r[i - 1] = p[i - 1]
      BY <1>1, <1>2, <3>1
    <3>3. i < n => r[i + 1] = p[i + 1]
      BY <1>1, <1>2, <3>1
    <3> QED
      BY <1>1, <3>1, <3>2, <3>3 DEF InOrder, n
  <2>2. CASE i > n
    <3> DEFINE j == i - n
    <3>1. j \in 1..m /\ r[i] = q[j] /\ i = n + j
      BY <1>1, <1>2, <2>2
    <3>2. j # 1 => r[i - 1] = q[j - 1]
      BY <1>1, <1>2, <3>1
    <3>3. j < m => r[i + 1] = q[j + 1]
      BY <1>1, <1>2, <3>1
    <3>4. j = 1 => q[j].op # "save_file"
      BY <1>1, <1>3, <3>1
    <3> HIDE DEF j
    <3>5. i < n + m <=> j < m
      BY <1>1, <3>1
    <3> QED
      BY <1>1, <3>1, <3>2, <3>3, <3>4, <3>5 DEF InOrder, m
  <2> QED
    BY <1>1, <2>1, <2>2
<1>5. ASSUME r # << >> PROVE Head(r).op \notin {"save_file", "advance"}
  <2>1. CASE n >= 1
    <3>1. r[1] = p[1] /\ 1 \in 1..n
      BY <1>1, <1>2, <2>1
    <3> QED
      BY <1>1, <1>3, <1>5, <2>1, <3>1
  <2>2. CASE ~(n >= 1)
    <3>1. n = 0 /\ m >= 1 /\ 1 \in 1..m
      BY <1>1, <1>3, <1>5, <2>2
    <3>2. r[1] = q[1]
      <4>1. 1 \in 1..n + m /\ ~(1 <= n) /\ 1 - n = 1
        BY <1>1, <3>1
      <4> QED
        BY <1>2, <4>1
    <3> QED
      BY <1>1, <1>3, <1>5, <3>1, <3>2
  <2> QED
    BY <2>1, <2>2
<1>6. ASSUME NEW x \in Ops, Has(p, x) PROVE Has(r, x)
  <2>1. PICK i \in 1..n : p[i] = x
    BY <1>6 DEF Has, n
  <2>2. i \in 1..n + m /\ r[i] = x
    BY <1>1, <1>2, <2>1
  <2> QED
    BY <1>2, <2>2 DEF Has
<1>7. ASSUME NEW x \in Ops, Has(q, x) PROVE Has(r, x)
  <2>1. PICK i \in 1..m : q[i] = x
    BY <1>7 DEF Has, m
  <2>2. n + i \in 1..n + m /\ r[n + i] = x
    <3>1. n + i \in 1..n + m /\ ~(n + i <= n) /\ (n + i) - n = i
      BY <1>1
    <3> QED
      BY <1>2, <2>1, <3>1
  <2> QED
    BY <1>2, <2>2 DEF Has
<1> QED
  BY <1>2, <1>4, <1>5, <1>6, <1>7 DEF r

-----------------------------------------------------------------------------
(* What the module puts on an agenda.                                      *)

LEMMA StreamsListed ==
  /\ Len(Streams) \in Nat \ {0} /\ DOMAIN Streams = 1..Len(Streams)
  /\ \A i \in 1..Len(Streams) : Streams[i] \in StreamSet
  /\ \A s \in StreamSet : \E i \in 1..Len(Streams) : Streams[i] = s
BY DataLogAssumption, EmptySeq DEF StreamSet

LEMMA SavesPlain ==
  /\ Plain(SaveSyncPos) /\ SaveSyncPos # << >>
  /\ \A s \in StreamSet : Has(SaveSyncPos, Op("save_offset", s))
<1> DEFINE n == 2 * Len(Streams)
           e(i) == Op(IF i % 2 = 1 THEN "save_offset" ELSE "save_file", Streams[(i + 1) \div 2])
<1>1. n \in Nat \ {0} /\ n >= 2
  BY StreamsListed
<1>2. ASSUME NEW i \in 1..n PROVE (i + 1) \div 2 \in 1..Len(Streams)
  BY StreamsListed, <1>2
<1>3. ASSUME NEW i \in 1..n PROVE e(i) \in Ops
  BY <1>2, <1>3, StreamsListed DEF Op, Ops
<1>4. /\ SaveSyncPos \in Seq(Ops) /\ Len(SaveSyncPos) = n
      /\ \A i \in 1..n : SaveSyncPos[i] = e(i)
  <2>1. SaveSyncPos = [i \in 1..n |-> e(i)]
    BY DEF SaveSyncPos
  <2> HIDE DEF n, e
  <2> QED
    BY <1>1, <1>3, <2>1
<1>5. ASSUME NEW i \in 1..n
      PROVE  /\ SaveSyncPos[i].op \in {"save_offset", "save_file"}
             /\ SaveSyncPos[i].op = "save_file" =>
                  i # 1 /\ SaveSyncPos[i - 1] = Op("save_offset", SaveSyncPos[i].of)
             /\ SaveSyncPos[i].op = "save_offset" =>
                  i < n /\ SaveSyncPos[i + 1] = Op("save_file", SaveSyncPos[i].of)
  <2>1. SaveSyncPos[i] = e(i)
    BY <1>4
  <2>2. CASE i % 2 = 1
    <3>1. i + 1 \in 1..n
      BY <1>1, <2>2, StreamsListed
    <3>2. (i + 1) % 2 # 1 /\ (i + 1 + 1) \div 2 = (i + 1) \div 2
      BY <1>1, <2>2
    <3>3. SaveSyncPos[i + 1] = e(i + 1)
      BY <1>4, <3>1
    <3> QED
      BY <1>1, <2>1, <2>2, <3>1, <3>2, <3>3 DEF Op
  <2>3. CASE i % 2 # 1
    <3>1. i - 1 \in 1..n /\ (i - 1) % 2 = 1 /\ (i - 1 + 1) \div 2 = (i + 1) \div 2
      BY <1>1, <2>3
    <3>2. SaveSyncPos[i - 1] = e(i - 1)
      BY <1>4, <3>1
    <3>3. SaveSyncPos[i] = Op("save_file", Streams[(i + 1) \div 2])
      BY <2>1, <2>3
    <3>4. SaveSyncPos[i - 1] = Op("save_offset", Streams[(i + 1) \div 2])
      BY <3>1, <3>2
    <3> QED
      BY <1>1, <3>1, <3>3, <3>4 DEF Op
  <2> QED
    BY <2>2, <2>3
<1>6. ASSUME NEW s \in StreamSet PROVE \E i \in 1..n : SaveSyncPos[i] = Op("save_offset", s)
  <2>1. PICK j \in 1..Len(Streams) : Streams[j] = s
    BY StreamsListed
  <2>2. 2 * j - 1 \in 1..n /\ (2 * j - 1) % 2 = 1 /\ (2 * j - 1 + 1) \div 2 = j
    BY StreamsListed
  <2>3. SaveSyncPos[2 * j - 1] = e(2 * j - 1)
    BY <1>4, <2>2
  <2> QED
    BY <2>1, <2>2, <2>3
<1>7. SaveSyncPos[1].op = "save_offset"
  BY <1>1, <1>4 DEF Op
<1> HIDE DEF n, e
<1>8. SaveSyncPos # << >> /\ Head(SaveSyncPos) = SaveSyncPos[1]
  BY <1>1, <1>4, EmptySeq
<1> QED
  BY <1>4, <1>5, <1>6, <1>7, <1>8 DEF InOrder, Plain, Has

LEMMA FlushPlain == Plain(FlushToFlash) /\ FlushToFlash # << >>
<1>1. /\ FlushToFlash \in Seq(Ops) /\ Len(FlushToFlash) = Len(Streams)
      /\ \A i \in 1..Len(Streams) : FlushToFlash[i] = Op("append", Streams[i])
  <2>1. FlushToFlash = [i \in 1..Len(Streams) |-> Op("append", Streams[i])]
    BY StreamsListed DEF FlushToFlash
  <2>2. \A i \in 1..Len(Streams) : Op("append", Streams[i]) \in Ops
    BY StreamsListed DEF Op, Ops
  <2> QED
    BY <2>1, <2>2, StreamsListed
<1>2. ASSUME NEW i \in 1..Len(FlushToFlash) PROVE FlushToFlash[i].op = "append"
  <2>1. i \in 1..Len(Streams) /\ FlushToFlash[i] = Op("append", Streams[i])
    BY <1>1
  <2> QED
    BY <2>1 DEF Op
<1>3. FlushToFlash # << >> /\ Head(FlushToFlash) = FlushToFlash[1] /\ 1 \in 1..Len(FlushToFlash)
  BY <1>1, StreamsListed, EmptySeq
<1> QED
  BY <1>1, <1>2, <1>3 DEF InOrder, Plain

LEMMA NothingPlain == Plain(<< >>)
BY EmptySeq DEF InOrder, Plain

LEMMA ClearPlain ==
  ASSUME NEW s \in StreamSet
  PROVE  Plain(<<Op("clear", s)>>)
<1> DEFINE q == <<Op("clear", s)>>
<1>1. q \in Seq(Ops) /\ Len(q) = 1 /\ q[1].op = "clear" /\ Head(q).op = "clear"
  BY DEF Op, Ops
<1> HIDE DEF q
<1>2. \A i \in 1..Len(q) : q[i].op = "clear"
  BY <1>1
<1> QED
  BY <1>1, <1>2 DEF InOrder, Plain, q

LEMMA RotationPlain ==
  ASSUME NEW s \in StreamSet
  PROVE  Plain(Rotation(s))
<1>1. CASE Rotation(s) = << >>
  BY <1>1, NothingPlain
<1>2. CASE Rotation(s) = <<Op("remove", s), Op("rename", s)>>
  <2> DEFINE r == <<Op("remove", s), Op("rename", s)>>
  <2>1. r \in Seq(Ops) /\ Len(r) = 2 /\ r[1].op = "remove" /\ r[2].op = "rename"
        /\ Head(r).op = "remove"
    BY DEF Op, Ops
  <2> HIDE DEF r
  <2>2. \A i \in 1..Len(r) : r[i].op \in {"remove", "rename"}
    BY <2>1
  <2> QED
    BY <1>2, <2>1, <2>2 DEF InOrder, Plain, r
<1> QED
  BY <1>1, <1>2 DEF Rotation

LEMMA StopAllRest ==
  /\ Rest(StopAll) /\ Head(StopAll).op # "save_file"
  /\ \A s \in StreamSet : Has(StopAll, Op("save_offset", s))
<1> DEFINE r == <<Op("stop_mqtt", Streams[1]), Op("restart", Streams[1])>>
           q == SaveSyncPos \o r
<1>1. r \in Seq(Ops) /\ Len(r) = 2 /\ r[1].op = "stop_mqtt" /\ r[2].op = "restart"
      /\ Head(r).op = "stop_mqtt"
  BY StreamsListed DEF Op, Ops
<1> HIDE DEF r
<1>2. Rest(r)
  <2>1. \A i \in 1..Len(r) : i = 1 \/ i = 2
    BY <1>1
  <2> QED
    BY <1>1, <2>1 DEF InOrder, Rest
<1>3. /\ Rest(q) /\ (q # << >> => Head(q).op # "save_file")
      /\ \A s \in StreamSet : Has(q, Op("save_offset", s))
  <2>1. \A s \in StreamSet : Op("save_offset", s) \in Ops
    BY DEF Op, Ops
  <2> QED
    BY <1>1, <1>2, <2>1, SavesPlain, Concatenated
<1> HIDE DEF q
<1>4. /\ Rest(FlushToFlash \o q)
      /\ FlushToFlash \o q # << >> => Head(FlushToFlash \o q).op # "save_file"
      /\ \A s \in StreamSet : Has(FlushToFlash \o q, Op("save_offset", s))
  <2>1. \A s \in StreamSet : Op("save_offset", s) \in Ops
    BY DEF Op, Ops
  <2> QED
    BY <1>3, <2>1, FlushPlain, Concatenated
<1>5. FlushToFlash \o q # << >>
  <2>1. PICK s \in StreamSet : TRUE
    BY StreamsListed
  <2>2. Len(FlushToFlash \o q) # 0
    BY <1>4, <2>1 DEF Has
  <2> QED
    BY <2>2, EmptySeq
<1> QED
  BY <1>4, <1>5 DEF StopAll, q, r

-----------------------------------------------------------------------------
(* A task does the first operation of its agenda, or starts another call.  *)

LEMMA LateMeans ==
  ASSUME Typed
  PROVE  \A s \in StreamSet :
           Late(s) <=> agenda["web"] # << >> /\ ~Has(agenda["web"], Op("save_offset", s))
<1>1. agenda["web"] \in Seq(Ops)
  BY DEF Typed, TypeOK, Tasks
<1>2. DOMAIN agenda["web"] = 1..Len(agenda["web"])
  BY <1>1
<1> QED
  BY <1>2 DEF Late, Has

LEMMA Popped ==
  ASSUME Typed, Ordered, NEW t \in Tasks, NEW h, NEW s \in StreamSet, NEW p, Plain(p),
         Doing(t, h, s), Then(t, p), h = "save_offset" => p = << >>
  PROVE  /\ agenda' \in [Tasks -> Seq(Ops)] /\ Ordered'
         /\ \A u \in Tasks : u # t => agenda'[u] = agenda[u]
         /\ \A u \in StreamSet : ~Doing(t, "advance", u)'
         /\ \A u \in StreamSet : Doing(t, "save_file", u)' => h = "save_offset" /\ u = s
         /\ h = "save_offset" => Doing(t, "save_file", s)'
         /\ t = "web" => \A u \in StreamSet :
              Late(u)' => Late(u) \/ (h = "save_offset" /\ u = s)
<1> DEFINE q == agenda[t]
           r == Tail(q)
           a == p \o r
<1>1. /\ agenda \in [Tasks -> Seq(Ops)] /\ q \in Seq(Ops) /\ q # << >> /\ InOrder(q)
      /\ Head(q) = Op(h, s)
  BY DEF Typed, TypeOK, Ordered, Doing
<1>2. agenda' = [agenda EXCEPT ![t] = a]
  BY DEF Then
<1>3. /\ Rest(r) /\ Head(q) \in Ops
      /\ Head(q).op # "save_offset" /\ r # << >> => Head(r).op # "save_file"
      /\ Head(q).op = "save_offset" => r # << >> /\ Head(r) = Op("save_file", Head(q).of)
      /\ \A x \in Ops : Has(q, x) => x = Head(q) \/ Has(r, x)
  BY <1>1, TailInOrder
<1>4. Head(q).op = h /\ Head(q).of = s
  BY <1>1 DEF Op
<1> HIDE DEF r, q, a
<1>5. /\ Rest(a)
      /\ a # << >> => Head(a).op # "advance"
      /\ h = "save_offset" => a # << >> /\ Head(a) = Op("save_file", s)
      /\ h # "save_offset" /\ a # << >> => Head(a).op # "save_file"
      /\ \A x \in Ops : Has(r, x) => Has(a, x)
  <2>1. CASE h = "save_offset"
    <3>1. a = r
      BY <1>3, <2>1, ConcatEmptySeq DEF Rest, a
    <3> QED
      BY <1>3, <1>4, <2>1, <3>1 DEF Op
  <2>2. CASE h # "save_offset"
    BY <1>3, <1>4, <2>2, Concatenated DEF a
  <2> QED
    BY <2>1, <2>2
<1>6. agenda' \in [Tasks -> Seq(Ops)] /\ agenda'[t] = a
      /\ \A u \in Tasks : u # t => agenda'[u] = agenda[u]
  BY <1>1, <1>2, <1>5 DEF Rest
<1>7. Ordered'
  BY <1>5, <1>6 DEF Ordered, Rest
<1>8. ASSUME t = "web", NEW u \in StreamSet, Late(u)'
      PROVE  Late(u) \/ (h = "save_offset" /\ u = s)
  <2>1. ~Has(a, Op("save_offset", u))
    <3>1. a \in Seq(Ops) /\ agenda'["web"] = a
      BY <1>5, <1>6, <1>8 DEF Rest
    <3>2. DOMAIN a = 1..Len(a)
      BY <3>1
    <3> QED
      BY <1>8, <3>1, <3>2 DEF Late, Has
  <2>2. Op("save_offset", u) \in Ops
    BY DEF Op, Ops
  <2>3. Has(q, Op("save_offset", u)) => Op("save_offset", u) = Head(q)
    BY <1>3, <1>5, <2>1, <2>2
  <2>4. Op("save_offset", u) = Head(q) => h = "save_offset" /\ u = s
    BY <1>4 DEF Op
  <2> QED
    BY <1>1, <1>8, <2>3, <2>4, LateMeans DEF q
<1> QED
  BY <1>5, <1>6, <1>7, <1>8 DEF Doing, Op

LEMMA Started ==
  ASSUME Typed, Ordered, NEW t \in Tasks, Idle(t), NEW q, q \in Seq(Ops), InOrder(q),
         q # << >> => Head(q).op # "save_file",
         t = "web" => \A u \in StreamSet : Has(q, Op("save_offset", u)),
         agenda' = [agenda EXCEPT ![t] = q]
  PROVE  /\ agenda' \in [Tasks -> Seq(Ops)] /\ Ordered' /\ agenda'[t] = q
         /\ \A u \in Tasks : u # t => agenda'[u] = agenda[u]
         /\ \A u \in StreamSet : ~Doing(t, "save_file", u)'
         /\ t = "web" => \A u \in StreamSet : ~Late(u)'
<1>1. agenda \in [Tasks -> Seq(Ops)]
  BY DEF Typed, TypeOK
<1>2. agenda' \in [Tasks -> Seq(Ops)] /\ agenda'[t] = q
      /\ \A u \in Tasks : u # t => agenda'[u] = agenda[u]
  BY <1>1
<1>3. Ordered'
  BY <1>2 DEF Ordered
<1>4. ASSUME t = "web", NEW u \in StreamSet PROVE ~Late(u)'
  <2>1. DOMAIN q = 1..Len(q) /\ agenda'["web"] = q
    BY <1>2, <1>4
  <2> QED
    BY <1>4, <2>1 DEF Late, Has
<1> QED
  BY <1>2, <1>3, <1>4 DEF Doing, Op

-----------------------------------------------------------------------------
(* What a step leaves alone.                                               *)

\* Where a cursor is on the flash.
LEMMA Places ==
  ASSUME Typed, NEW s \in StreamSet
  PROVE  /\ files[s].old \in Nat /\ files[s].current \in Nat /\ files[s].end \in Nat
         /\ files[s].old <= files[s].current /\ files[s].current <= files[s].end
         /\ cursor[s] \in Cursors /\ nvs[s] \in Cursors /\ buffered[s] \in Nat
         /\ cursor[s].file \in {0, 1} /\ cursor[s].offset \in Nat
         /\ nvs[s].file \in {0, 1} /\ nvs[s].offset \in Nat
         /\ InFlight(s) \in Nat /\ batch \in Nat /\ NextToSend(s) \in Nat
<1>1. /\ files[s].old \in Nat /\ files[s].current \in Nat /\ files[s].end \in Nat
      /\ files[s].old <= files[s].current /\ files[s].current <= files[s].end
      /\ cursor[s] \in Cursors /\ nvs[s] \in Cursors
      /\ cursor[s].file \in {0, 1} /\ cursor[s].offset \in Nat
      /\ nvs[s].file \in {0, 1} /\ nvs[s].offset \in Nat
  BY DEF Typed, TypeOK, Cursors
<1>2. buffered[s] \in Nat /\ batch \in Nat
  <2>1. BUFFER \in Nat /\ BATCH \in Nat
    BY DataLogAssumption
  <2> QED
    BY <2>1 DEF Typed, TypeOK
<1>3. InFlight(s) \in Nat
  BY <1>2 DEF InFlight
<1>4. NextToSend(s) \in Nat
  BY <1>1, <1>3 DEF NextToSend
<1> QED
  BY <1>1, <1>2, <1>3, <1>4

\* What is sent next, from the boundaries of the files and the cursor.
LEMMA NextIs ==
  ASSUME Typed, NEW s \in StreamSet
  PROVE  /\ cursor[s].file = 1 =>
              NextToSend(s) = files[s].current + cursor[s].offset + InFlight(s)
         /\ cursor[s].file = 0 =>
              NextToSend(s) =
                IF cursor[s].offset + InFlight(s) < files[s].current - files[s].old
                THEN files[s].old + cursor[s].offset + InFlight(s) ELSE files[s].current
BY Places DEF NextToSend, OldLength

\* A step that has nothing to do with a stream.
Elsewhere(s) ==
  /\ files'[s] = files[s] /\ cursor'[s] = cursor[s] /\ nvs'[s] = nvs[s]
  /\ accepted'[s] = accepted[s] /\ skipped'[s] = skipped[s] /\ unsaved'[s] = unsaved[s]
  /\ clean' => clean
  /\ \A t \in Tasks : Doing(t, "save_file", s)' => Doing(t, "save_file", s) /\ torn'[t] = torn[t]
  /\ Doing("loop", "advance", s)' <=> Doing("loop", "advance", s)
  /\ Doing("loop", "advance", s) => torn'["loop"] = torn["loop"] /\ batch' = batch
  /\ Late(s)' => Late(s) /\ (Doing("web", "save_file", s)' <=> Doing("web", "save_file", s))

LEMMA Untouched ==
  ASSUME NEW s \in StreamSet, Tracked(s), Elsewhere(s)
  PROVE  Tracked(s)' /\ NextToSend(s)' = NextToSend(s)
<1>1. /\ OnFlashNumbers(s)' = OnFlashNumbers(s) /\ CurrentLength(s)' = CurrentLength(s)
      /\ OldLength(s)' = OldLength(s)
      /\ LengthAt(s, nvs[s])' = LengthAt(s, nvs[s])
      /\ Position(s, nvs[s])' = Position(s, nvs[s])
  BY DEF Elsewhere, OnFlashNumbers, OldLength, CurrentLength, LengthAt, Position
<1>2. InFlight(s)' = InFlight(s)
  BY DEF Elsewhere, InFlight
<1>3. NextToSend(s)' = NextToSend(s)
  BY <1>1, <1>2 DEF Elsewhere, NextToSend
<1>4. Placed(s)'
  BY <1>1, <1>2 DEF Tracked, Elsewhere, Placed
<1>5. SentUpTo(s, NextToSend(s))'
  BY <1>1, <1>3 DEF Tracked, Elsewhere, SentUpTo
<1>6. SavedTrue(s)' /\ SentBefore(s)'
  BY <1>1, <1>3 DEF Tracked, Elsewhere, SavedTrue, SentBefore
<1>7. HalfSaved("loop", s)' /\ HalfSaved("web", s)'
  BY DEF Tracked, Elsewhere, HalfSaved, Tasks
<1>8. WebSaved(s)'
  <2> SUFFICES ASSUME clean', Late(s)'
               PROVE  IF Doing("web", "save_file", s)'
                      THEN torn'["web"] \/ nvs'[s].offset = cursor'[s].offset
                      ELSE unsaved'[s] \/ nvs'[s] = cursor'[s]
    BY DEF WebSaved
  <2>1. /\ clean /\ Late(s) /\ (Doing("web", "save_file", s)' <=> Doing("web", "save_file", s))
        /\ Doing("web", "save_file", s)' => torn'["web"] = torn["web"]
        /\ cursor'[s] = cursor[s] /\ nvs'[s] = nvs[s] /\ unsaved'[s] = unsaved[s]
    BY DEF Elsewhere, Tasks
  <2>2. IF Doing("web", "save_file", s) THEN torn["web"] \/ nvs[s].offset = cursor[s].offset
        ELSE unsaved[s] \/ nvs[s] = cursor[s]
    BY <2>1 DEF Tracked, WebSaved
  <2> QED
    BY <2>1, <2>2
<1> QED
  BY <1>3, <1>4, <1>5, <1>6, <1>7, <1>8 DEF Tracked

\* A stream's data.
Same(u) ==
  /\ files'[u] = files[u] /\ cursor'[u] = cursor[u] /\ nvs'[u] = nvs[u]
  /\ accepted'[u] = accepted[u] /\ skipped'[u] = skipped[u] /\ unsaved'[u] = unsaved[u]
  /\ clean' => clean

LEMMA PoppedElsewhere ==
  ASSUME Typed, Ordered, NEW t \in Tasks, NEW h, NEW s \in StreamSet, NEW p, Plain(p),
         Doing(t, h, s), Then(t, p), h = "save_offset" => p = << >>,
         NEW u \in StreamSet, Same(u), batch' = batch,
         u # s \/ (h \notin {"save_offset", "save_file", "advance"} /\ torn' = torn),
         \A o \in Tasks : o # t /\ ~Doing(o, "save_file", s) /\ ~Doing(o, "advance", s) =>
           torn'[o] = torn[o]
  PROVE  Elsewhere(u)
<1>1. /\ \A o \in Tasks : o # t => agenda'[o] = agenda[o]
      /\ ~Doing(t, "advance", u)'
      /\ Doing(t, "save_file", u)' => h = "save_offset" /\ u = s
      /\ t = "web" => (Late(u)' => Late(u) \/ (h = "save_offset" /\ u = s))
  BY Popped
<1>2. ~Doing(t, "save_file", u)' /\ ~Doing(t, "save_file", u) /\ ~Doing(t, "advance", u)
  BY <1>1 DEF Doing, Op
<1>3. ASSUME NEW o \in Tasks, o # t
      PROVE  /\ Doing(o, "save_file", u)' <=> Doing(o, "save_file", u)
             /\ Doing(o, "advance", u)' <=> Doing(o, "advance", u)
             /\ Doing(o, "save_file", u) \/ Doing(o, "advance", u) => torn'[o] = torn[o]
  <2>1. agenda'[o] = agenda[o]
    BY <1>1, <1>3
  <2>2. Doing(o, "save_file", u) \/ Doing(o, "advance", u) => torn'[o] = torn[o]
    BY <1>3 DEF Doing, Op
  <2> QED
    BY <2>1, <2>2 DEF Doing
<1>4. ASSUME Late(u)' PROVE Late(u)
  <2>1. CASE t = "web"
    BY <1>1, <1>4, <2>1
  <2>2. CASE t # "web"
    BY <1>1, <1>4, <2>2 DEF Late, Tasks
  <2> QED
    BY <2>1, <2>2
<1> QED
  BY <1>1, <1>2, <1>3, <1>4 DEF Elsewhere, Same, Tasks

LEMMA StartedElsewhere ==
  ASSUME Typed, Ordered, NEW t \in Tasks, Idle(t), NEW q, q \in Seq(Ops), InOrder(q),
         q # << >> => Head(q).op # "save_file",
         t = "web" => \A v \in StreamSet : Has(q, Op("save_offset", v)),
         agenda' = [agenda EXCEPT ![t] = q],
         NEW u \in StreamSet, Same(u), torn' = torn,
         t = "web" => batch' = batch,
         t = "loop" /\ q # << >> => Head(q) # Op("advance", u)
  PROVE  Elsewhere(u)
<1>1. /\ agenda'[t] = q
      /\ \A o \in Tasks : o # t => agenda'[o] = agenda[o]
      /\ ~Doing(t, "save_file", u)'
      /\ t = "web" => ~Late(u)'
  BY Started
<1>2. ~Doing(t, "save_file", u) /\ ~Doing(t, "advance", u)
      /\ (t = "loop" => ~Doing(t, "advance", u)')
  BY <1>1 DEF Doing, Idle
<1>3. ASSUME NEW o \in Tasks, o # t
      PROVE  /\ Doing(o, "save_file", u)' <=> Doing(o, "save_file", u)
             /\ Doing(o, "advance", u)' <=> Doing(o, "advance", u)
  BY <1>1, <1>3 DEF Doing
<1>4. t = "loop" => (Late(u)' => Late(u))
  BY <1>1 DEF Late, Tasks
<1> QED
  BY <1>1, <1>2, <1>3, <1>4 DEF Elsewhere, Same, Tasks

-----------------------------------------------------------------------------
(* The steps, and the types.                                               *)

\* A step that leaves files, cursors and histories alone, and starts a call at most.
Quiet ==
  /\ UNCHANGED <<files, nvs, cursor, histories, batch>>
  /\ \/ UNCHANGED agenda
     \/ /\ Idle("loop")
        /\ \E q \in {FlushToFlash, SaveSyncPos} : agenda' = [agenda EXCEPT !["loop"] = q]
     \/ Idle("web") /\ agenda' = [agenda EXCEPT !["web"] = StopAll]

LEMMA Moves ==
  ASSUME [Next]_vars
  PROVE  \/ Quiet \/ StopMqtt \/ PowerCut \/ Restart
         \/ \E t \in Tasks, s \in StreamSet : OnFlash(t, s)
         \/ \E s \in StreamSet : Advance(s) \/ SendBatch(s)
<1>1. CASE Flush \/ DisconnectFlush \/ BackfillCheck
  BY <1>1 DEF Flush, DisconnectFlush, BackfillCheck, Quiet
<1>2. ASSUME NEW s \in StreamSet, SendRefused(s) \/ StreamDone(s) PROVE Quiet
  BY <1>2 DEF SendRefused, StreamDone, Backfilling, Quiet, ram
<1>3. ASSUME NEW s \in StreamSet, Log(s) PROVE Quiet
  BY <1>3 DEF Log, Quiet
<1>4. CASE Connected \/ Disconnected \/ OnStop
  BY <1>4 DEF Connected, Disconnected, OnStop, Quiet
<1>5. CASE UNCHANGED vars
  BY <1>5 DEF vars, ram, Quiet
<1>6. CASE Shutdown
  BY <1>6 DEF Shutdown, Tasks
<1>7. CASE Loop
  BY <1>1, <1>2, <1>7 DEF Loop, Backfill, Tasks
<1> QED
  BY <1>3, <1>4, <1>5, <1>6, <1>7 DEF Next

\* The operation a step does, and what it puts in its place.
LEMMA Pops ==
  ASSUME NEW t \in Tasks, NEW s \in StreamSet
  PROVE  /\ OnFlash(t, s) \/ (t = "loop" /\ Advance(s)) \/ (t = "web" /\ s = Streams[1] /\ StopMqtt)
              => \E h, p : /\ Plain(p) /\ Doing(t, h, s) /\ Then(t, p)
                           /\ h = "save_offset" => p = << >>
<1>1. CASE AppendFile(t, s)
  <2>1. /\ Doing(t, "append", s)
        /\ Then(t, << >>) \/ Then(t, <<Op("clear", s)>>) \/ Then(t, Rotation(s))
    BY <1>1, Zenon DEF AppendFile
  <2> QED
    BY <2>1, NothingPlain, ClearPlain, RotationPlain
<1>2. CASE Clear(t, s)
  BY <1>2, RotationPlain DEF Clear
<1>3. CASE RemoveOld(t, s)
  BY <1>3, NothingPlain DEF RemoveOld
<1>4. CASE RenameCurrent(t, s)
  BY <1>4, SavesPlain DEF RenameCurrent
<1>5. CASE SaveOffset(t, s) \/ SaveFile(t, s)
  BY <1>5, NothingPlain DEF SaveOffset, SaveFile
<1>6. CASE t = "loop" /\ Advance(s)
  <2>1. Doing("loop", "advance", s) /\ (Then("loop", SaveSyncPos) \/ Then("loop", << >>))
    BY <1>6, Zenon DEF Advance
  <2> QED
    BY <1>6, <2>1, NothingPlain, SavesPlain
<1>7. CASE t = "web" /\ s = Streams[1] /\ StopMqtt
  BY <1>7, NothingPlain DEF StopMqtt
<1> QED
  BY <1>1, <1>2, <1>3, <1>4, <1>5, <1>6, <1>7 DEF OnFlash

LEMMA AgendaStep ==
  ASSUME Typed, Ordered, [Next]_vars
  PROVE  agenda' \in [Tasks -> Seq(Ops)] /\ Ordered'
<1> DEFINE G == agenda' \in [Tasks -> Seq(Ops)] /\ Ordered'
<1>1. agenda \in [Tasks -> Seq(Ops)]
  BY DEF Typed, TypeOK
<1>2. CASE Quiet
  <2>1. CASE UNCHANGED agenda
    BY <1>1, <2>1 DEF Ordered
  <2>2. ASSUME Idle("loop"), NEW q \in {FlushToFlash, SaveSyncPos},
               agenda' = [agenda EXCEPT !["loop"] = q]
        PROVE  G
    BY <2>2, FlushPlain, SavesPlain, Started DEF Plain, Tasks
  <2>3. CASE Idle("web") /\ agenda' = [agenda EXCEPT !["web"] = StopAll]
    BY <2>3, StopAllRest, Started DEF Rest, Tasks
  <2> QED
    BY <1>2, <2>1, <2>2, <2>3 DEF Quiet
<1>3. CASE PowerCut \/ Restart
  <2>1. agenda' = [t \in Tasks |-> << >>]
    BY <1>3 DEF PowerCut, Restart, Boot
  <2>2. << >> \in Seq(Ops) /\ InOrder(<< >>)
    BY NothingPlain DEF Plain
  <2> QED
    BY <2>1, <2>2 DEF Ordered
<1>4. ASSUME NEW t \in Tasks, NEW s \in StreamSet,
             \/ OnFlash(t, s) \/ (t = "loop" /\ Advance(s))
             \/ (t = "web" /\ s = Streams[1] /\ StopMqtt)
      PROVE  G
  <2>1. PICK h, p : /\ Plain(p) /\ Doing(t, h, s) /\ Then(t, p)
                    /\ h = "save_offset" => p = << >>
    BY <1>4, Pops
  <2> QED
    BY <2>1, Popped
<1>5. ASSUME NEW s \in StreamSet, SendBatch(s) PROVE G
  <2> DEFINE q == <<Op("advance", s)>>
  <2>1. q \in Seq(Ops) /\ Len(q) = 1 /\ q[1].op = "advance" /\ Head(q).op = "advance"
    BY DEF Op, Ops
  <2>2. Idle("loop") /\ agenda' = [agenda EXCEPT !["loop"] = q]
    BY <1>5 DEF SendBatch, Backfilling
  <2> HIDE DEF q
  <2>3. InOrder(q)
    BY <2>1 DEF InOrder
  <2> QED
    BY <2>1, <2>2, <2>3, Started DEF Tasks
<1>6. CASE StopMqtt
  BY <1>4, <1>6, StreamsListed DEF Tasks
<1> QED
  BY <1>2, <1>3, <1>4, <1>5, <1>6, Moves DEF Tasks

LEMMA OfflineIs ==
  Offline \in [connected : BOOLEAN, flush : BOOLEAN, check : BOOLEAN, active : BOOLEAN,
               done : SUBSET StreamSet]
BY DEF Offline

\* The connection and the bounds.
LEMMA MqttTyped ==
  ASSUME Typed, [Next]_vars
  PROVE  /\ mqtt' \in [connected : BOOLEAN, flush : BOOLEAN, check : BOOLEAN, active : BOOLEAN,
                       done : SUBSET StreamSet]
         /\ cuts' \in Nat /\ faults' \in Nat
         /\ advances' \in 0..SAVE_EVERY - 1
<1> DEFINE M == [connected : BOOLEAN, flush : BOOLEAN, check : BOOLEAN, active : BOOLEAN,
                 done : SUBSET StreamSet]
<1>1. mqtt \in M /\ cuts \in Nat /\ faults \in Nat /\ advances \in 0..SAVE_EVERY - 1
      /\ SAVE_EVERY \in Nat \ {0}
  BY DataLogAssumption DEF Typed, TypeOK
<1> DEFINE G == mqtt' \in M /\ cuts' \in Nat /\ faults' \in Nat /\ advances' \in 0..SAVE_EVERY - 1
<1>2. CASE Flush \/ DisconnectFlush \/ BackfillCheck
  BY <1>1, <1>2 DEF Flush, DisconnectFlush, BackfillCheck, bounds
<1>3. ASSUME NEW t \in Tasks, NEW s \in StreamSet, OnFlash(t, s) PROVE G
  <2>1. /\ mqtt' = mqtt /\ cuts' = cuts /\ advances' = advances
        /\ faults' = faults \/ faults' = faults + 1
    <3>1. CASE AppendFile(t, s)
      BY <3>1 DEF AppendFile, Fault
    <3>2. CASE Clear(t, s) \/ RemoveOld(t, s)
      BY <3>2 DEF Clear, RemoveOld, bounds
    <3>3. CASE RenameCurrent(t, s) \/ SaveOffset(t, s) \/ SaveFile(t, s)
      BY <3>3 DEF RenameCurrent, SaveOffset, SaveFile, bounds
    <3> QED
      BY <1>3, <3>1, <3>2, <3>3 DEF OnFlash
  <2> QED
    BY <1>1, <2>1
<1>4. ASSUME NEW s \in StreamSet, Backfill(s) PROVE G
  <2>1. CASE SendBatch(s)
    BY <1>1, <2>1 DEF SendBatch, bounds
  <2>2. CASE SendRefused(s)
    BY <1>1, <2>2 DEF SendRefused, Fault, ram
  <2>3. CASE StreamDone(s)
    <3>1. mqtt' = [mqtt EXCEPT !.done = mqtt.done \cup {s},
                               !.active = (mqtt.done \cup {s}) # StreamSet]
      BY <2>3 DEF StreamDone
    <3>2. mqtt.done \cup {s} \in SUBSET StreamSet
      BY <1>1
    <3>3. mqtt' \in M
      BY <1>1, <3>1, <3>2
    <3>4. cuts' = cuts /\ advances' = advances /\ (faults' = faults \/ faults' = faults + 1)
      BY <2>3 DEF StreamDone, Fault
    <3> QED
      BY <1>1, <3>3, <3>4
  <2> QED
    BY <1>4, <2>1, <2>2, <2>3 DEF Backfill
<1>5. ASSUME NEW s \in StreamSet, Advance(s) PROVE G
  <2>1. mqtt' = mqtt /\ cuts' = cuts /\ faults' = faults /\ advances' = (advances + 1) % SAVE_EVERY
    BY <1>5 DEF Advance, bounds
  <2> QED
    BY <1>1, <2>1
<1>6. CASE \E s \in StreamSet : Log(s)
  BY <1>1, <1>6 DEF Log, bounds
<1>7. CASE Connected \/ Disconnected \/ OnStop \/ StopMqtt
  <2>1. CASE Connected
    BY <1>1, <2>1 DEF Connected, bounds
  <2>2. CASE Disconnected
    <3>1. mqtt' = [mqtt EXCEPT !.connected = FALSE, !.active = FALSE, !.flush = TRUE]
      BY <2>2 DEF Disconnected
    <3>2. mqtt' \in M
      BY <1>1, <3>1, Zenon
    <3>3. cuts' = cuts + 1 /\ faults' = faults /\ advances' = advances
      BY <2>2 DEF Disconnected
    <3> QED
      BY <1>1, <3>2, <3>3
  <2>3. CASE OnStop
    <3>1. mqtt' = mqtt /\ advances' = advances /\ cuts' = cuts + 1 /\ faults' = faults
      BY <2>3, Zenon DEF OnStop
    <3> QED
      BY <1>1, <3>1
  <2>4. CASE StopMqtt
    BY <1>1, <2>4 DEF StopMqtt, bounds
  <2> QED
    BY <1>7, <2>1, <2>2, <2>3, <2>4
<1>8. CASE PowerCut \/ Restart
  <2>1. /\ mqtt' = Offline /\ advances' = 0 /\ faults' = faults
        /\ cuts' = cuts \/ cuts' = cuts + 1
    BY <1>8, Zenon DEF PowerCut, Restart, Boot
  <2>2. Offline \in M
    BY OfflineIs
  <2>3. mqtt' \in M
    BY <2>1, <2>2
  <2>4. cuts' \in Nat /\ faults' \in Nat /\ advances' \in 0..SAVE_EVERY - 1
    BY <1>1, <2>1
  <2> QED
    BY <2>3, <2>4
<1>9. CASE UNCHANGED vars
  BY <1>1, <1>9 DEF vars, ram, bounds
<1> QED
  BY <1>2, <1>3, <1>4, <1>5, <1>6, <1>7, <1>8, <1>9 DEF Next, Loop, Shutdown, Tasks

\* The files and buffers.
FilesTyped ==
  /\ files \in [StreamSet -> [old : Nat, current : Nat, end : Nat]]
  /\ buffered \in [StreamSet -> 0..BUFFER]
  /\ \A s \in StreamSet : files[s].old <= files[s].current /\ files[s].current <= files[s].end

LEMMA FilesStep ==
  ASSUME FilesTyped, [Next]_vars
  PROVE  FilesTyped'
<1>1. BUFFER \in Nat \ {0}
  BY DataLogAssumption
<1>2. CASE UNCHANGED <<files, buffered>>
  BY <1>2 DEF FilesTyped
<1>3. ASSUME NEW s \in StreamSet, Log(s) PROVE FilesTyped'
  BY <1>1, <1>3 DEF Log, FilesTyped
<1>4. ASSUME NEW t \in Tasks, NEW s \in StreamSet, AppendFile(t, s) PROVE FilesTyped'
  <2>1. ASSUME NEW n \in 0..buffered[s], files' = [files EXCEPT ![s].end = @ + n],
               buffered' = buffered
        PROVE  FilesTyped'
    <3>1. files[s].end + n \in Nat /\ files[s].current <= files[s].end + n
      BY <1>1 DEF FilesTyped
    <3> QED
      BY <1>1, <2>1, <3>1 DEF FilesTyped
  <2>2. \/ UNCHANGED <<files, buffered>>
        \/ /\ buffered' = buffered
           /\ \E n \in 0..buffered[s] : files' = [files EXCEPT ![s].end = @ + n]
    BY <1>4, Zenon DEF AppendFile
  <2> QED
    BY <1>2, <2>1, <2>2
<1>5. ASSUME NEW t \in Tasks, NEW s \in StreamSet, Clear(t, s) PROVE FilesTyped'
  BY <1>1, <1>5 DEF Clear, FilesTyped
<1>6. ASSUME NEW t \in Tasks, NEW s \in StreamSet, RemoveOld(t, s) \/ RenameCurrent(t, s)
      PROVE  FilesTyped'
  <2>1. CASE files' = [files EXCEPT ![s].old = files[s].current] /\ UNCHANGED buffered
    BY <1>1, <2>1 DEF FilesTyped
  <2>2. CASE /\ files' = [files EXCEPT ![s].old = files[s].current, ![s].current = files[s].end]
             /\ UNCHANGED buffered
    <3>1. files'[s] = [files[s] EXCEPT !.old = files[s].current, !.current = files[s].end]
          /\ \A u \in StreamSet : u # s => files'[u] = files[u]
      BY <2>2 DEF FilesTyped
    <3>2. files[s] \in [old : Nat, current : Nat, end : Nat] /\ files[s].current <= files[s].end
      BY DEF FilesTyped
    <3>3. files'[s] = [old |-> files[s].current, current |-> files[s].end, end |-> files[s].end]
      BY <3>1, <3>2
    <3>4. files'[s] \in [old : Nat, current : Nat, end : Nat]
          /\ files'[s].old <= files'[s].current /\ files'[s].current <= files'[s].end
      BY <3>2, <3>3
    <3>5. files' \in [StreamSet -> [old : Nat, current : Nat, end : Nat]]
      <4>1. DOMAIN files' = StreamSet /\ files' = [u \in StreamSet |-> files'[u]]
        BY <2>2 DEF FilesTyped
      <4>2. \A u \in StreamSet : files'[u] \in [old : Nat, current : Nat, end : Nat]
        BY <3>1, <3>4 DEF FilesTyped
      <4> QED
        BY <4>1, <4>2
    <3> QED
      BY <1>1, <2>2, <3>1, <3>4, <3>5 DEF FilesTyped
  <2> QED
    BY <1>2, <1>6, <2>1, <2>2 DEF RemoveOld, RenameCurrent
<1>7. CASE PowerCut \/ Restart
  <2>1. files' = files /\ buffered' = [s \in StreamSet |-> 0]
    BY <1>7 DEF PowerCut, Restart, Boot
  <2> QED
    BY <1>1, <2>1 DEF FilesTyped
<1>8. ASSUME NEW t \in Tasks, NEW s \in StreamSet,
             SaveOffset(t, s) \/ SaveFile(t, s) \/ Advance(s) \/ Backfill(s)
      PROVE  UNCHANGED <<files, buffered>>
  BY <1>8 DEF SaveOffset, SaveFile, Advance, Backfill, SendBatch, SendRefused, StreamDone, ram
<1>9. CASE \/ Flush \/ DisconnectFlush \/ BackfillCheck \/ Connected \/ Disconnected \/ OnStop
           \/ StopMqtt
  BY <1>2, <1>9
     DEF Flush, DisconnectFlush, BackfillCheck, Connected, Disconnected, OnStop, StopMqtt
<1>10. CASE UNCHANGED vars
  BY <1>2, <1>10 DEF vars, ram
<1>11. ASSUME NEW t \in Tasks, NEW s \in StreamSet, OnFlash(t, s) PROVE FilesTyped'
  BY <1>2, <1>4, <1>5, <1>6, <1>8, <1>11 DEF OnFlash
<1> QED
  BY <1>2, <1>3, <1>7, <1>8, <1>9, <1>10, <1>11 DEF Next, Loop, Shutdown, Tasks

LEMMA LengthAtIs ==
  ASSUME Typed, NEW s \in StreamSet, NEW c \in Cursors
  PROVE  /\ c.file = 1 => /\ LengthAt(s, c) = files[s].end - files[s].current
                          /\ Position(s, c) = files[s].current + c.offset
         /\ c.file = 0 => /\ LengthAt(s, c) = files[s].current - files[s].old
                          /\ Position(s, c) = files[s].old + c.offset
         /\ c.file \in {0, 1} /\ c.offset \in Nat
         /\ LengthAt(s, c) \in Nat /\ Position(s, c) \in Nat
BY Places DEF LengthAt, Position, OldLength, CurrentLength, Cursors

\* Where a message leaves the cursor.
LEMMA AdvancedIs ==
  ASSUME Typed, NEW s \in StreamSet, NEW n \in Nat
  PROVE  /\ Advanced(s, n) \in Cursors
         /\ cursor[s].file = 1 => Advanced(s, n) = [file |-> 1, offset |-> cursor[s].offset + n]
         /\ cursor[s].file = 0 =>
              Advanced(s, n) =
                IF cursor[s].offset + n < files[s].current - files[s].old
                THEN [file |-> 0, offset |-> cursor[s].offset + n] ELSE [file |-> 1, offset |-> 0]
<1>1. /\ cursor[s] \in Cursors /\ cursor[s].file \in {0, 1} /\ cursor[s].offset \in Nat
      /\ files[s].old \in Nat /\ files[s].current \in Nat
  BY Places
<1>2. [cursor[s] EXCEPT !.offset = cursor[s].offset + n] =
        [file |-> cursor[s].file, offset |-> cursor[s].offset + n]
  BY <1>1 DEF Cursors
<1>3. cursor[s].file = 0 => LengthAt(s, cursor[s]) = files[s].current - files[s].old
  BY <1>1, LengthAtIs
<1>4. CASE cursor[s].file = 0 /\ cursor[s].offset + n >= LengthAt(s, cursor[s])
  <2>1. Advanced(s, n) = [file |-> 1, offset |-> 0]
    BY <1>4 DEF Advanced
  <2> QED
    BY <1>1, <1>3, <1>4, <2>1 DEF Cursors
<1>5. CASE ~(cursor[s].file = 0 /\ cursor[s].offset + n >= LengthAt(s, cursor[s]))
  <2>1. Advanced(s, n) = [file |-> cursor[s].file, offset |-> cursor[s].offset + n]
    BY <1>2, <1>5 DEF Advanced
  <2> QED
    BY <1>1, <1>3, <1>5, <2>1 DEF Cursors
<1> QED
  BY <1>4, <1>5

\* A message holds at most what is left of the cursor's file.
LEMMA CountIs ==
  ASSUME Typed, NEW s \in StreamSet
  PROVE  /\ Count(s) \in 0..BATCH /\ Count(s) \in Nat
         /\ Count(s) > 0 => cursor[s].offset + Count(s) <= LengthAt(s, cursor[s])
         /\ Count(s) = 0 => cursor[s].offset >= LengthAt(s, cursor[s])
<1> DEFINE left == LengthAt(s, cursor[s]) - cursor[s].offset
<1>1. BATCH \in Nat \ {0} /\ LengthAt(s, cursor[s]) \in Nat /\ cursor[s].offset \in Nat
  BY DataLogAssumption, Places, LengthAtIs
<1>2. Count(s) = IF left < 0 THEN 0 ELSE IF left < BATCH THEN left ELSE BATCH
  BY DEF Count
<1> QED
  BY <1>1, <1>2

\* A cursor that is read at a boot is within its file.
LEMMA LoadedWithin ==
  ASSUME Typed, NEW s \in StreamSet
  PROVE  /\ Loaded(s) \in Cursors
         /\ Loaded(s).offset <= LengthAt(s, Loaded(s))
         /\ Loaded(s) # nvs[s] => Position(s, Loaded(s)) = files[s].old
<1> DEFINE wrong == LengthAt(s, nvs[s]) = 0 \/ nvs[s].offset > LengthAt(s, nvs[s])
<1>1. /\ files[s].old \in Nat /\ files[s].current \in Nat /\ files[s].old <= files[s].current
      /\ nvs[s] \in Cursors
  BY Places
<1>2. CASE wrong
  <2>1. CASE OldLength(s) > 0
    <3>1. Loaded(s) = [file |-> 0, offset |-> 0]
      BY <1>2, <2>1 DEF Loaded
    <3>2. Loaded(s) \in Cursors /\ Loaded(s).offset = 0 /\ Loaded(s).file = 0
      BY <3>1 DEF Cursors
    <3> QED
      BY <1>1, <3>2, LengthAtIs
  <2>2. CASE ~(OldLength(s) > 0)
    <3>1. Loaded(s) = [file |-> 1, offset |-> 0]
      BY <1>2, <2>2 DEF Loaded
    <3>2. files[s].current = files[s].old
      BY <1>1, <2>2 DEF OldLength
    <3>3. Loaded(s) \in Cursors /\ Loaded(s).offset = 0 /\ Loaded(s).file = 1
      BY <3>1 DEF Cursors
    <3> QED
      BY <1>1, <3>2, <3>3, LengthAtIs
  <2> QED
    BY <2>1, <2>2
<1>3. CASE ~wrong
  <2>1. Loaded(s) = nvs[s]
    BY <1>3 DEF Loaded
  <2>2. nvs[s].offset \in Nat /\ LengthAt(s, nvs[s]) \in Nat
    BY <1>1, LengthAtIs
  <2> QED
    BY <1>1, <1>3, <2>1, <2>2
<1> QED
  BY <1>2, <1>3

\* The cursors and the histories.
LEMMA CursorsTyped ==
  ASSUME Typed, [Next]_vars
  PROVE  /\ cursor' \in [StreamSet -> Cursors] /\ nvs' \in [StreamSet -> Cursors]
         /\ accepted' \in [StreamSet -> SUBSET Int] /\ skipped' \in [StreamSet -> SUBSET Int]
         /\ unsaved' \in [StreamSet -> BOOLEAN] /\ torn' \in [Tasks -> BOOLEAN]
         /\ clean' \in BOOLEAN /\ batch' \in 0..BATCH
<1> DEFINE C == cursor' \in [StreamSet -> Cursors] /\ nvs' \in [StreamSet -> Cursors]
           A == accepted' \in [StreamSet -> SUBSET Int] /\ skipped' \in [StreamSet -> SUBSET Int]
           U == unsaved' \in [StreamSet -> BOOLEAN]
           T == torn' \in [Tasks -> BOOLEAN] /\ clean' \in BOOLEAN
           B == batch' \in 0..BATCH
           G == C /\ A /\ U /\ T /\ B
<1>1. /\ cursor \in [StreamSet -> Cursors] /\ nvs \in [StreamSet -> Cursors]
      /\ accepted \in [StreamSet -> SUBSET Int] /\ skipped \in [StreamSet -> SUBSET Int]
      /\ unsaved \in [StreamSet -> BOOLEAN] /\ torn \in [Tasks -> BOOLEAN] /\ clean \in BOOLEAN
      /\ batch \in 0..BATCH /\ BATCH \in Nat \ {0}
  BY DataLogAssumption DEF Typed, TypeOK
<1>2. ASSUME UNCHANGED <<cursor, nvs, histories, batch>> PROVE G
  BY <1>1, <1>2 DEF histories
<1>3. ASSUME NEW t \in Tasks, NEW s \in StreamSet,
             AppendFile(t, s) \/ Clear(t, s) \/ RemoveOld(t, s) \/ StopMqtt
      PROVE  G
  BY <1>2, <1>3 DEF AppendFile, Clear, RemoveOld, StopMqtt
<1>4. ASSUME NEW t \in Tasks, NEW s \in StreamSet, RenameCurrent(t, s) PROVE G
  <2>1. Rotated(cursor[s]) \in Cursors
    BY <1>1 DEF Rotated, Cursors
  <2>2. C /\ A /\ B
    BY <1>1, <1>4, <2>1 DEF RenameCurrent
  <2>3. U
    BY <1>1, <1>4, Zenon DEF RenameCurrent
  <2>4. torn' = [torn EXCEPT ![Other(t)] = torn[Other(t)]
                   \/ Doing(Other(t), "save_file", s) \/ Doing(Other(t), "advance", s)]
        \/ torn' = torn
    BY <1>4, Zenon DEF RenameCurrent, Upset
  <2>5. clean' = (clean /\ CurrentLength(s) > 0)
    BY <1>4 DEF RenameCurrent
  <2>6. T
    <3> DEFINE v == torn[Other(t)] \/ Doing(Other(t), "save_file", s)
                      \/ Doing(Other(t), "advance", s)
    <3>1. Other(t) \in Tasks
      BY DEF Other, Tasks
    <3>2. v \in BOOLEAN
      BY <1>1, <3>1, Zenon DEF Doing
    <3>3. torn' = [torn EXCEPT ![Other(t)] = v] \/ torn' = torn
      BY <2>4
    <3> HIDE DEF v
    <3>4. torn' \in [Tasks -> BOOLEAN]
      BY <1>1, <3>1, <3>2, <3>3, Zenon
    <3>5. clean' \in BOOLEAN
      BY <1>1, <2>5, Zenon
    <3> QED
      BY <3>4, <3>5
  <2> QED
    BY <2>2, <2>3, <2>6
<1>5. ASSUME NEW t \in Tasks, NEW s \in StreamSet, SaveOffset(t, s) PROVE G
  <2>1. C
    BY <1>1, <1>5 DEF SaveOffset, Cursors
  <2> QED
    BY <1>1, <1>5, <2>1 DEF SaveOffset, histories
<1>6. ASSUME NEW t \in Tasks, NEW s \in StreamSet, SaveFile(t, s) PROVE G
  <2>1. C /\ A /\ B
    BY <1>1, <1>6 DEF SaveFile, Cursors
  <2>2. U /\ T
    BY <1>1, <1>6, Zenon DEF SaveFile
  <2> QED
    BY <2>1, <2>2
<1>7. ASSUME NEW s \in StreamSet, SendBatch(s) PROVE G
  <2>1. Count(s) \in 0..BATCH /\ Position(s, cursor[s]) \in Nat
    BY CountIs, Places, LengthAtIs
  <2>2. Position(s, cursor[s])..(Position(s, cursor[s]) + Count(s) - 1) \subseteq Int
    BY <1>1, <2>1
  <2> QED
    BY <1>1, <1>7, <2>1, <2>2 DEF SendBatch
<1>8. ASSUME NEW s \in StreamSet, Advance(s) PROVE G
  <2> DEFINE c == Advanced(s, batch)
  <2>1. c \in Cursors /\ files[s].old \in Nat
    BY <1>1, AdvancedIs, Places
  <2>2. files[s].old..(Position(s, c) - 1) \subseteq Int
    BY <2>1, LengthAtIs
  <2> HIDE DEF c
  <2>3. /\ cursor' = [cursor EXCEPT ![s] = c] /\ nvs' = nvs /\ accepted' = accepted
        /\ unsaved' = unsaved /\ batch' = batch
        /\ \/ skipped' = [skipped EXCEPT ![s] = skipped[s] \cup files[s].old..(Position(s, c) - 1)]
           \/ skipped' = skipped
        /\ clean' = (clean /\ ~torn["loop"] /\ ~Late(s))
    BY <1>8 DEF Advance, c
  <2>4. torn' = [torn EXCEPT !["loop"] = FALSE,
                             !["web"] = torn["web"] \/ (/\ c.file # cursor[s].file
                                                        /\ Doing("web", "save_file", s))]
    BY <1>8 DEF Advance, c
  <2>5. C /\ A /\ U /\ B /\ clean' \in BOOLEAN
    BY <1>1, <2>1, <2>2, <2>3
  <2>6. torn' \in [Tasks -> BOOLEAN]
    BY <1>1, <2>4, Zenon DEF Tasks, Doing
  <2> QED
    BY <2>5, <2>6
<1>9. ASSUME PowerCut \/ Restart PROVE G
  <2>1. /\ cursor' = [s \in StreamSet |-> Loaded(s)] /\ nvs' = nvs /\ accepted' = accepted
        /\ unsaved' = [s \in StreamSet |-> Loaded(s) # nvs[s]]
        /\ torn' = [t \in Tasks |-> FALSE] /\ batch' = 0
        /\ skipped' = [s \in StreamSet |-> skipped[s] \cup
             IF unsaved[s] THEN files[s].old..(Position(s, Loaded(s)) - 1) ELSE {}]
    BY <1>9 DEF PowerCut, Restart, Boot
  <2>2. \A s \in StreamSet : Loaded(s) \in Cursors
    BY LoadedWithin
  <2>3. A
    <3>1. ASSUME NEW s \in StreamSet
          PROVE  files[s].old..(Position(s, Loaded(s)) - 1) \subseteq Int
      BY Places, <2>2, LengthAtIs
    <3> QED
      BY <1>1, <2>1, <3>1
  <2>4. clean' \in BOOLEAN
    BY <1>9 DEF PowerCut, Restart
  <2>5. C
    BY <1>1, <2>1, <2>2
  <2>6. U /\ torn' \in [Tasks -> BOOLEAN] /\ B
    BY <1>1, <2>1
  <2> QED
    BY <2>3, <2>4, <2>5, <2>6
<1>10. ASSUME Quiet PROVE G
  BY <1>2, <1>10 DEF Quiet
<1> HIDE DEF G
<1>11. ASSUME NEW t \in Tasks, NEW s \in StreamSet, OnFlash(t, s) PROVE G
  BY <1>3, <1>4, <1>5, <1>6, <1>11 DEF OnFlash
<1>12. ASSUME StopMqtt PROVE G
  BY <1>3, <1>12, StreamsListed DEF Tasks
<1>13. G
  BY <1>7, <1>8, <1>9, <1>10, <1>11, <1>12, Moves
<1> QED
  BY <1>13 DEF G

LEMMA TypedStep ==
  ASSUME Typed, Ordered, [Next]_vars
  PROVE  Typed'
<1>1. FilesTyped'
  <2>1. FilesTyped
    BY DEF Typed, TypeOK, FilesTyped
  <2> QED
    BY <2>1, FilesStep
<1>2. TypeOK'
  BY <1>1, CursorsTyped, MqttTyped, AgendaStep DEF TypeOK, FilesTyped
<1> QED
  BY <1>2, CursorsTyped, MqttTyped DEF Typed

-----------------------------------------------------------------------------
(* What a step for one stream leaves alone of the others.                  *)

LEMMA QuietElsewhere ==
  ASSUME Typed, Ordered, NEW u \in StreamSet, Quiet \/ StopMqtt
  PROVE  Elsewhere(u)
<1>1. /\ UNCHANGED <<files, nvs, cursor, histories, batch>>
  BY DEF Quiet, StopMqtt
<1>2. Same(u) /\ torn' = torn /\ batch' = batch
  BY <1>1 DEF Same, histories
<1>3. CASE UNCHANGED agenda
  BY <1>2, <1>3 DEF Elsewhere, Same, Doing, Late
<1>4. ASSUME Idle("loop"), NEW q \in {FlushToFlash, SaveSyncPos},
             agenda' = [agenda EXCEPT !["loop"] = q]
      PROVE  Elsewhere(u)
  <2>1. Plain(q)
    BY FlushPlain, SavesPlain
  <2>2. q # << >> => Head(q).op \notin {"save_file", "advance"}
    <3>1. q # << >> => Head(q) = q[1] /\ 1 \in 1..Len(q)
      BY <2>1, EmptySeq DEF Plain
    <3> QED
      BY <2>1, <3>1 DEF Plain
  <2>3. q # << >> => Head(q) # Op("advance", u)
    BY <2>2 DEF Op
  <2> QED
    BY <1>2, <1>4, <2>1, <2>2, <2>3, StartedElsewhere DEF Plain, Tasks
<1>5. CASE Idle("web") /\ agenda' = [agenda EXCEPT !["web"] = StopAll]
  BY <1>2, <1>5, StopAllRest, StartedElsewhere DEF Rest, Tasks
<1>6. CASE StopMqtt
  <2>1. Doing("web", "stop_mqtt", Streams[1]) /\ Then("web", << >>) /\ Streams[1] \in StreamSet
    BY <1>6, StreamsListed DEF StopMqtt
  <2> QED
    BY <1>2, <2>1, NothingPlain, PoppedElsewhere DEF Tasks
<1> QED
  BY <1>3, <1>4, <1>5, <1>6 DEF Quiet

LEMMA ClearElsewhere ==
  ASSUME Typed, Ordered, NEW t \in Tasks, NEW s \in StreamSet, NEW u \in StreamSet, Clear(t, s)
  PROVE  Elsewhere(u)
<1>1. Same(u) /\ torn' = torn /\ batch' = batch
  BY DEF Clear, Same, histories
<1>2. Doing(t, "clear", s) /\ Then(t, Rotation(s))
  BY DEF Clear
<1> QED
  BY <1>1, <1>2, RotationPlain, PoppedElsewhere

LEMMA Others ==
  ASSUME Typed, Ordered, NEW t \in Tasks, NEW s \in StreamSet, NEW u \in StreamSet, u # s,
         OnFlash(t, s) \/ (t = "loop" /\ Advance(s))
  PROVE  Elsewhere(u)
<1>1. /\ DOMAIN files = StreamSet /\ DOMAIN cursor = StreamSet /\ DOMAIN nvs = StreamSet
      /\ DOMAIN accepted = StreamSet /\ DOMAIN unsaved = StreamSet /\ DOMAIN skipped = StreamSet
      /\ torn \in [Tasks -> BOOLEAN]
  BY DEF Typed, TypeOK
<1>2. CASE Clear(t, s)
  BY <1>2, ClearElsewhere
<1>3. CASE AppendFile(t, s) \/ RemoveOld(t, s)
  <2>1. files'[u] = files[u]
    <3>1. CASE AppendFile(t, s)
      <4>1. files' = files \/ \E n : files' = [files EXCEPT ![s].end = @ + n]
        BY <3>1, Zenon DEF AppendFile
      <4> QED
        BY <1>1, <4>1
    <3>2. CASE RemoveOld(t, s)
      BY <1>1, <3>2 DEF RemoveOld
    <3> QED
      BY <1>3, <3>1, <3>2
  <2>2. UNCHANGED <<cursor, nvs, batch, histories>>
    BY <1>3 DEF AppendFile, RemoveOld
  <2>3. Same(u) /\ torn' = torn /\ batch' = batch
    BY <2>1, <2>2 DEF Same, histories
  <2> QED
    BY <1>3, <2>3, Pops, PoppedElsewhere DEF OnFlash
<1>4. CASE RenameCurrent(t, s)
  <2>1. /\ files' = files \/ \E v : files' = [files EXCEPT ![s] = v]
        /\ cursor' = [cursor EXCEPT ![s] = Rotated(@)]
        /\ UNCHANGED <<nvs, batch, accepted, skipped>>
    BY <1>4 DEF RenameCurrent
  <2>2. unsaved'[u] = unsaved[u]
    BY <1>1, <1>4, Zenon DEF RenameCurrent
  <2>3. Same(u) /\ batch' = batch
    <3>1. clean' => clean
      BY <1>4 DEF RenameCurrent
    <3> QED
      BY <1>1, <2>1, <2>2, <3>1 DEF Same
  <2>4. ASSUME NEW o \in Tasks, o # t, ~Doing(o, "save_file", s), ~Doing(o, "advance", s)
        PROVE  torn'[o] = torn[o]
    <3>1. o = Other(t)
      BY <2>4 DEF Other, Tasks
    <3>2. torn' = torn \/ torn' = [torn EXCEPT ![o] = torn[o] \/ Doing(o, "save_file", s)
                                                              \/ Doing(o, "advance", s)]
      BY <1>4, <3>1, Zenon DEF RenameCurrent, Upset
    <3> QED
      BY <1>1, <2>4, <3>2, Zenon
  <2> QED
    BY <1>4, <2>3, <2>4, Pops, PoppedElsewhere DEF OnFlash
<1>5. CASE SaveOffset(t, s)
  <2>1. Same(u) /\ torn' = torn /\ batch' = batch
    BY <1>1, <1>5 DEF SaveOffset, Same, histories
  <2> QED
    BY <1>5, <2>1, Pops, PoppedElsewhere DEF OnFlash
<1>6. CASE SaveFile(t, s)
  <2>1. unsaved'[u] = unsaved[u] /\ \A o \in Tasks : o # t => torn'[o] = torn[o]
    BY <1>1, <1>6, Zenon DEF SaveFile
  <2>2. Same(u) /\ batch' = batch
    BY <1>1, <1>6, <2>1 DEF SaveFile, Same
  <2> QED
    BY <1>6, <2>1, <2>2, Pops, PoppedElsewhere DEF OnFlash
<1>7. CASE t = "loop" /\ Advance(s)
  <2>1. /\ cursor' = [cursor EXCEPT ![s] = Advanced(s, batch)]
        /\ UNCHANGED <<files, nvs, batch, accepted, unsaved>>
        /\ skipped' = skipped \/ \E v : skipped' = [skipped EXCEPT ![s] = v]
        /\ clean' => clean
    BY <1>7 DEF Advance
  <2>2. Same(u) /\ batch' = batch
    BY <1>1, <2>1 DEF Same
  <2>3. ~Doing("web", "save_file", s) => torn'["web"] = torn["web"]
    BY <1>1, <1>7, Zenon DEF Advance, Tasks
  <2>4. \A o \in Tasks : o # t /\ ~Doing(o, "save_file", s) /\ ~Doing(o, "advance", s) =>
          torn'[o] = torn[o]
    BY <1>7, <2>3 DEF Tasks
  <2> QED
    BY <1>7, <2>2, <2>4, Pops, PoppedElsewhere
<1> QED
  BY <1>2, <1>3, <1>4, <1>5, <1>6, <1>7 DEF OnFlash

LEMMA SendOthers ==
  ASSUME Typed, Ordered, NEW s \in StreamSet, NEW u \in StreamSet, u # s, SendBatch(s)
  PROVE  Elsewhere(u)
<1> DEFINE q == <<Op("advance", s)>>
<1>1. q \in Seq(Ops) /\ Len(q) = 1 /\ q[1].op = "advance" /\ Head(q).op = "advance"
      /\ Head(q).of = s
  BY DEF Op, Ops
<1>2. Idle("loop") /\ agenda' = [agenda EXCEPT !["loop"] = q]
  BY DEF SendBatch, Backfilling
<1> HIDE DEF q
<1>3. InOrder(q)
  BY <1>1 DEF InOrder
<1>4. Head(q) # Op("advance", u)
  BY <1>1 DEF Op
<1>5. Same(u) /\ torn' = torn
  <2>1. DOMAIN accepted = StreamSet
    BY DEF Typed
  <2> QED
    BY <2>1 DEF SendBatch, Same
<1> QED
  BY <1>1, <1>2, <1>3, <1>4, <1>5, StartedElsewhere DEF Tasks

-----------------------------------------------------------------------------
(* What a step does to its stream.                                         *)

\* Neither task begins or ends to save or to count.
Kept(s) ==
  /\ \A t \in Tasks : Doing(t, "save_file", s)' => Doing(t, "save_file", s)
  /\ Doing("loop", "advance", s)' <=> Doing("loop", "advance", s)
  /\ Late(s)' => Late(s) /\ (Doing("web", "save_file", s)' <=> Doing("web", "save_file", s))

LEMMA PoppedKept ==
  ASSUME Typed, Ordered, NEW t \in Tasks, NEW h, NEW s \in StreamSet, NEW p, Plain(p),
         Doing(t, h, s), Then(t, p), h \notin {"save_offset", "save_file", "advance"}
  PROVE  Kept(s) /\ ~Doing(t, "save_file", s)' /\ ~Doing(t, "advance", s)
<1>1. /\ \A o \in Tasks : o # t => agenda'[o] = agenda[o]
      /\ ~Doing(t, "advance", s)' /\ ~Doing(t, "save_file", s)'
      /\ t = "web" => (Late(s)' => Late(s))
  BY Popped
<1>2. ~Doing(t, "save_file", s) /\ ~Doing(t, "advance", s)
  BY DEF Doing, Op
<1>3. \A o \in Tasks : o # t => /\ Doing(o, "save_file", s)' <=> Doing(o, "save_file", s)
                                /\ Doing(o, "advance", s)' <=> Doing(o, "advance", s)
  BY <1>1 DEF Doing
<1>4. Late(s)' => Late(s)
  BY <1>1 DEF Late, Tasks
<1> QED
  BY <1>1, <1>2, <1>3, <1>4 DEF Kept, Tasks

LEMMA SavesKept ==
  ASSUME NEW s \in StreamSet, Tracked(s), Kept(s), cursor'[s] = cursor[s], nvs'[s] = nvs[s],
         unsaved'[s] = unsaved[s], torn' = torn, clean' => clean
  PROVE  HalfSaved("loop", s)' /\ HalfSaved("web", s)' /\ WebSaved(s)'
<1>1. HalfSaved("loop", s)' /\ HalfSaved("web", s)'
  BY DEF Tracked, Kept, HalfSaved, Tasks
<1>2. ASSUME clean', Late(s)'
      PROVE  IF Doing("web", "save_file", s)'
             THEN torn'["web"] \/ nvs'[s].offset = cursor'[s].offset
             ELSE unsaved'[s] \/ nvs'[s] = cursor'[s]
  <2>1. clean /\ Late(s) /\ (Doing("web", "save_file", s)' <=> Doing("web", "save_file", s))
    BY <1>2 DEF Kept
  <2>2. IF Doing("web", "save_file", s) THEN torn["web"] \/ nvs[s].offset = cursor[s].offset
        ELSE unsaved[s] \/ nvs[s] = cursor[s]
    BY <2>1 DEF Tracked, WebSaved
  <2> QED
    BY <2>1, <2>2
<1>3. WebSaved(s)'
  BY <1>2 DEF WebSaved
<1> QED
  BY <1>1, <1>3

\* Where things are after a step that does not move the cursors.
LEMMA SavedStays ==
  ASSUME Typed, NEW s \in StreamSet, Tracked(s), nvs'[s] = nvs[s], cursor'[s] = cursor[s],
         unsaved'[s] = unsaved[s], files'[s].current = files[s].current,
         files'[s].end \in Nat, files'[s].end >= files[s].end,
         \/ files'[s].old = files[s].old
         \/ files'[s].old = files[s].current /\ NextToSend(s)' >= files[s].current,
         NextToSend(s)' \in Nat, NextToSend(s)' >= NextToSend(s)
  PROVE  SavedTrue(s)'
<1> DEFINE nx == NextToSend(s)
           ny == NextToSend(s)'
           a == files[s].old
           b == files[s].current
           e == files[s].end
           x == nvs[s].offset
<1>1. /\ a \in Nat /\ b \in Nat /\ e \in Nat /\ a <= b /\ b <= e /\ nx \in Nat /\ ny \in Nat
      /\ x \in Nat /\ nvs[s].file \in {0, 1} /\ nvs[s] \in Cursors
  BY Places
<1>2. SUFFICES ASSUME ~unsaved[s]
               PROVE  /\ nvs'[s].file = 1 =>
                           cursor'[s].file = 1 /\ nvs'[s].offset <= CurrentLength(s)'
                      /\ nvs'[s].offset <= LengthAt(s, nvs[s])' =>
                           Position(s, nvs[s])' <= NextToSend(s)'
  BY DEF SavedTrue
<1>3. /\ nvs[s].file = 1 => cursor[s].file = 1 /\ x <= e - b /\ (x <= e - b => b + x <= nx)
      /\ nvs[s].file = 0 => (x <= b - a => a + x <= nx)
  BY <1>1, <1>2, LengthAtIs DEF Tracked, SavedTrue, CurrentLength
<1>4. /\ CurrentLength(s)' = files'[s].end - b
      /\ nvs[s].file = 1 => /\ LengthAt(s, nvs[s])' = files'[s].end - b
                            /\ Position(s, nvs[s])' = b + x
      /\ nvs[s].file = 0 => /\ LengthAt(s, nvs[s])' = b - files'[s].old
                            /\ Position(s, nvs[s])' = files'[s].old + x
  BY DEF CurrentLength, OldLength, LengthAt, Position
<1> HIDE DEF nx, ny, a, b, e, x
<1>5. nx <= ny /\ (files'[s].old = a \/ (files'[s].old = b /\ ny >= b)) /\ files'[s].end >= e
      /\ files'[s].end \in Nat
  BY DEF nx, ny, a, b, e
<1>6. CASE nvs[s].file = 1
  BY <1>1, <1>3, <1>4, <1>5, <1>6 DEF x, ny
<1>7. CASE nvs[s].file = 0
  BY <1>1, <1>3, <1>4, <1>5, <1>7 DEF x, ny
<1> QED
  BY <1>1, <1>6, <1>7

\* A file grows behind the cursors.
LEMMA AppendMoves ==
  ASSUME Typed, Ordered, NEW t \in Tasks, NEW s \in StreamSet, AppendFile(t, s)
  PROVE  /\ UNCHANGED <<cursor, nvs, batch, accepted, skipped, unsaved, torn, clean>>
         /\ files'[s].old = files[s].old /\ files'[s].current = files[s].current
         /\ files'[s].end >= files[s].end /\ files'[s].end \in Nat
         /\ Kept(s)
         /\ InFlight(s)' = InFlight(s) /\ NextToSend(s)' = NextToSend(s)
<1>1. /\ files'[s].old = files[s].old /\ files'[s].current = files[s].current
      /\ files'[s].end >= files[s].end /\ files'[s].end \in Nat
  <2>1. files' = files \/ \E n \in 0..buffered[s] : files' = [files EXCEPT ![s].end = @ + n]
    BY Zenon DEF AppendFile
  <2>2. /\ files \in [StreamSet -> [old : Nat, current : Nat, end : Nat]]
        /\ buffered[s] \in Nat
    BY Places DEF Typed, TypeOK
  <2>3. CASE files' = files
    BY <2>2, <2>3
  <2>4. ASSUME NEW n \in 0..buffered[s], files' = [files EXCEPT ![s].end = @ + n]
        PROVE  /\ files'[s].old = files[s].old /\ files'[s].current = files[s].current
               /\ files'[s].end >= files[s].end /\ files'[s].end \in Nat
    BY <2>2, <2>4
  <2> QED
    BY <2>1, <2>3, <2>4
<1>2. UNCHANGED <<cursor, nvs, batch, accepted, skipped, unsaved, torn, clean>>
  BY DEF AppendFile, histories
<1>3. Kept(s)
  <2>1. /\ Doing(t, "append", s)
        /\ Then(t, << >>) \/ Then(t, <<Op("clear", s)>>) \/ Then(t, Rotation(s))
    BY Zenon DEF AppendFile
  <2> QED
    BY <2>1, NothingPlain, ClearPlain, RotationPlain, PoppedKept
<1>4. InFlight(s)' = InFlight(s)
  BY <1>2, <1>3 DEF InFlight, Kept
<1>5. NextToSend(s)' = NextToSend(s)
  BY <1>1, <1>2, <1>4 DEF NextToSend, OldLength
<1> QED
  BY <1>1, <1>2, <1>3, <1>4, <1>5

LEMMA AppendTracked ==
  ASSUME Typed, Ordered, NEW t \in Tasks, NEW s \in StreamSet, AppendFile(t, s), Tracked(s)
  PROVE  Tracked(s)'
<1>1. /\ UNCHANGED <<cursor, nvs, batch, accepted, skipped, unsaved, torn, clean>>
      /\ files'[s].old = files[s].old /\ files'[s].current = files[s].current
      /\ files'[s].end >= files[s].end /\ files'[s].end \in Nat
      /\ Kept(s)
      /\ InFlight(s)' = InFlight(s) /\ NextToSend(s)' = NextToSend(s)
  BY AppendMoves
<1>2. /\ files[s].old \in Nat /\ files[s].current \in Nat /\ files[s].end \in Nat
      /\ files[s].old <= files[s].current /\ files[s].current <= files[s].end
      /\ NextToSend(s) \in Nat /\ InFlight(s) \in Nat /\ cursor[s].offset \in Nat
      /\ cursor[s].file \in {0, 1}
  BY Places
<1>3. Placed(s)'
  BY <1>1, <1>2 DEF Tracked, Placed, OldLength, CurrentLength, Kept
<1>4. SentUpTo(s, NextToSend(s))'
  <2>1. NextToSend(s) <= files[s].end
    BY <1>2, NextIs DEF Tracked, Placed, OldLength, CurrentLength
  <2> QED
    BY <1>1, <1>2, <2>1 DEF Tracked, SentUpTo, OnFlashNumbers
<1>5. SavedTrue(s)'
  BY <1>1, <1>2, SavedStays
<1>6. SentBefore(s)'
  BY <1>1 DEF Tracked, SentBefore
<1>7. HalfSaved("loop", s)' /\ HalfSaved("web", s)' /\ WebSaved(s)'
  BY <1>1, SavesKept
<1> QED
  BY <1>3, <1>4, <1>5, <1>6, <1>7 DEF Tracked

\* The older file is gone, with what was not sent of it.
LEMMA RemoveMoves ==
  ASSUME Typed, Ordered, NEW t \in Tasks, NEW s \in StreamSet, RemoveOld(t, s)
  PROVE  /\ UNCHANGED <<cursor, nvs, batch, accepted, skipped, unsaved, torn, clean>>
         /\ files'[s].old = files[s].current /\ files'[s].current = files[s].current
         /\ files'[s].end = files[s].end
         /\ Kept(s)
         /\ InFlight(s)' = InFlight(s)
         /\ cursor[s].file = 0 => NextToSend(s)' = files[s].current
         /\ cursor[s].file = 1 => NextToSend(s)' = NextToSend(s)
<1>1. /\ files'[s].old = files[s].current /\ files'[s].current = files[s].current
      /\ files'[s].end = files[s].end
  BY DEF RemoveOld, Typed, TypeOK
<1>2. UNCHANGED <<cursor, nvs, batch, accepted, skipped, unsaved, torn, clean>>
  BY DEF RemoveOld, histories
<1>3. Kept(s)
  BY NothingPlain, PoppedKept DEF RemoveOld
<1>4. InFlight(s)' = InFlight(s)
  BY <1>2, <1>3 DEF InFlight, Kept
<1>5. /\ cursor[s].file = 0 => NextToSend(s)' = files[s].current
      /\ cursor[s].file = 1 => NextToSend(s)' = NextToSend(s)
  <2>1. /\ files[s].current \in Nat /\ InFlight(s) \in Nat /\ cursor[s].offset \in Nat
    BY Places
  <2> QED
    BY <1>1, <1>2, <1>4, <2>1 DEF NextToSend, OldLength
<1> QED
  BY <1>1, <1>2, <1>3, <1>4, <1>5

LEMMA RemoveTracked ==
  ASSUME Typed, Ordered, NEW t \in Tasks, NEW s \in StreamSet, RemoveOld(t, s), Tracked(s)
  PROVE  Tracked(s)' /\ NextToSend(s)' >= NextToSend(s) /\ NextToSend(s)' >= files[s].current
<1>1. /\ UNCHANGED <<cursor, nvs, batch, accepted, skipped, unsaved, torn, clean>>
      /\ files'[s].old = files[s].current /\ files'[s].current = files[s].current
      /\ files'[s].end = files[s].end
      /\ Kept(s)
      /\ InFlight(s)' = InFlight(s)
      /\ cursor[s].file = 0 => NextToSend(s)' = files[s].current
      /\ cursor[s].file = 1 => NextToSend(s)' = NextToSend(s)
  BY RemoveMoves
<1>2. /\ files[s].old \in Nat /\ files[s].current \in Nat /\ files[s].end \in Nat
      /\ files[s].old <= files[s].current /\ files[s].current <= files[s].end
      /\ NextToSend(s) \in Nat /\ InFlight(s) \in Nat /\ cursor[s].offset \in Nat
      /\ cursor[s].file \in {0, 1}
  BY Places
<1>3. /\ NextToSend(s)' >= NextToSend(s) /\ NextToSend(s)' >= files[s].current
      /\ NextToSend(s)' \in Nat
  <2>1. /\ cursor[s].file = 0 => NextToSend(s) <= files[s].current
        /\ cursor[s].file = 1 => NextToSend(s) >= files[s].current
    BY <1>2, NextIs
  <2> QED
    BY <1>1, <1>2, <2>1
<1>4. Placed(s)'
  BY <1>1, <1>2 DEF Tracked, Placed, OldLength, CurrentLength, Kept
<1>5. SentUpTo(s, NextToSend(s))'
  <2>1. CASE cursor[s].file = 0
    BY <1>1, <1>2, <2>1 DEF SentUpTo, OnFlashNumbers
  <2>2. CASE cursor[s].file = 1
    BY <1>1, <1>2, <2>2 DEF Tracked, SentUpTo, OnFlashNumbers
  <2> QED
    BY <1>2, <2>1, <2>2
<1>6. SavedTrue(s)'
  BY <1>1, <1>2, <1>3, SavedStays
<1>7. SentBefore(s)'
  <2>1. accepted[s] \subseteq Int
    BY DEF Typed
  <2> QED
    BY <1>1, <1>2, <1>3, <2>1 DEF Tracked, SentBefore
<1>8. HalfSaved("loop", s)' /\ HalfSaved("web", s)' /\ WebSaved(s)'
  BY <1>1, SavesKept
<1> QED
  BY <1>3, <1>4, <1>5, <1>6, <1>7, <1>8 DEF Tracked


\* The current file is the older one now, if there was one, and the cursor moves with it. A
\* message that counts in the older file that is gone does not count any more.
LEMMA RenameMoves ==
  ASSUME Typed, Ordered, NEW t \in Tasks, NEW s \in StreamSet, RenameCurrent(t, s), Placed(s)
  PROVE  /\ UNCHANGED <<nvs, batch, accepted, skipped>> /\ unsaved'[s] = TRUE
         /\ clean' => clean /\ files[s].current < files[s].end
         /\ Kept(s) /\ ~Doing(t, "save_file", s)'
         /\ files'[s].end = files[s].end
         /\ IF files[s].current < files[s].end
            THEN files'[s].old = files[s].current /\ files'[s].current = files[s].end
            ELSE files'[s].old = files[s].old /\ files'[s].current = files[s].current
         /\ cursor'[s].file = 0
         /\ cursor'[s].offset = IF cursor[s].file = 0 THEN 0 ELSE cursor[s].offset
         /\ cursor[s].file = 1 => torn' = torn /\ InFlight(s)' = InFlight(s)
         /\ cursor[s].file = 0 => InFlight(s)' = 0
         /\ \A o \in Tasks : o # t /\ Doing(o, "save_file", s) /\ cursor[s].file = 0 => torn'[o]
         /\ IF files[s].current < files[s].end
            THEN NextToSend(s)' = IF cursor[s].file = 0 THEN files[s].current ELSE NextToSend(s)
            ELSE NextToSend(s)' = files[s].old
<1> DEFINE a == files[s].old
           b == files[s].current
           e == files[s].end
           f == cursor[s].file
           o == cursor[s].offset
<1>1. /\ a \in Nat /\ b \in Nat /\ e \in Nat /\ a <= b /\ b <= e
      /\ f \in {0, 1} /\ o \in Nat /\ InFlight(s) \in Nat
  BY Places
<1>2. /\ files[s] \in [old : Nat, current : Nat, end : Nat] /\ DOMAIN files = StreamSet
      /\ DOMAIN cursor = StreamSet /\ DOMAIN unsaved = StreamSet
      /\ torn \in [Tasks -> BOOLEAN]
  BY DEF Typed, TypeOK
<1>3. UNCHANGED <<nvs, batch, accepted, skipped>> /\ unsaved'[s] = TRUE
  <2>1. unsaved' = [unsaved EXCEPT ![s] = TRUE]
    BY DEF RenameCurrent
  <2> QED
    BY <1>2, <2>1 DEF RenameCurrent
<1>4. CurrentLength(s) = e - b
  BY DEF CurrentLength
<1>5. clean' => clean /\ b < e
  <2>1. clean' => clean /\ CurrentLength(s) > 0
    BY Zenon DEF RenameCurrent
  <2> QED
    BY <1>1, <1>4, <2>1
<1>6. Kept(s) /\ ~Doing(t, "save_file", s)' /\ ~Doing(t, "advance", s)
  BY SavesPlain, PoppedKept DEF RenameCurrent
<1>7. /\ files'[s].end = e
      /\ IF b < e THEN files'[s].old = b /\ files'[s].current = e
         ELSE files'[s].old = a /\ files'[s].current = b
  <2>1. CASE b < e
    <3>1. files'[s] = [files[s] EXCEPT !.old = files[s].current, !.current = files[s].end]
      BY <1>1, <1>2, <1>4, <2>1 DEF RenameCurrent
    <3>2. files'[s] = [old |-> b, current |-> e, end |-> e]
      BY <1>2, <3>1
    <3> QED
      BY <2>1, <3>2
  <2>2. CASE ~(b < e)
    BY <1>1, <1>4, <2>2 DEF RenameCurrent
  <2> QED
    BY <2>1, <2>2
<1>8. cursor'[s].file = 0 /\ cursor'[s].offset = IF f = 0 THEN 0 ELSE o
  <2>1. cursor'[s] = [file |-> 0, offset |-> IF f = 0 THEN 0 ELSE o]
    BY <1>2 DEF RenameCurrent, Rotated
  <2> QED
    BY <2>1
<1>9. f = 1 => torn' = torn
  BY DEF RenameCurrent
<1>10. ASSUME f = 0, NEW u \in Tasks, u # t, Doing(u, "save_file", s) \/ Doing(u, "advance", s)
       PROVE  torn'[u]
  <2>1. u = Other(t)
    BY <1>10 DEF Other, Tasks
  <2>2. torn' = [torn EXCEPT ![u] = @ \/ Doing(u, "save_file", s) \/ Doing(u, "advance", s)]
    BY <1>10, <2>1 DEF RenameCurrent, Upset
  <2> QED
    BY <1>2, <1>10, <2>2, Zenon
<1>11. f = 1 => InFlight(s)' = InFlight(s)
  BY <1>3, <1>6, <1>9 DEF InFlight, Kept
<1>12. f = 0 => InFlight(s)' = 0
  <2>1. f = 0 /\ Doing("loop", "advance", s)' => torn'["loop"]
    BY <1>6, <1>10 DEF Kept, Tasks
  <2> QED
    BY <2>1 DEF InFlight
<1>13. IF b < e THEN NextToSend(s)' = IF f = 0 THEN b ELSE NextToSend(s)
       ELSE NextToSend(s)' = a
  <2> DEFINE a2 == files'[s].old
             b2 == files'[s].current
             n == cursor'[s].offset + InFlight(s)'
  <2>1. NextToSend(s)' = IF n < b2 - a2 THEN a2 + n ELSE b2
    BY <1>8 DEF NextToSend, OldLength
  <2>2. f = 1 => NextToSend(s) = b + o + InFlight(s) /\ o + InFlight(s) <= e - b
    BY <1>4, NextIs DEF Placed
  <2>3. n = IF f = 0 THEN 0 ELSE o + InFlight(s)
    BY <1>1, <1>8, <1>11, <1>12
  <2>4. IF b < e THEN a2 = b /\ b2 = e ELSE a2 = a /\ b2 = b
    BY <1>7
  <2> HIDE DEF n, a2, b2
  <2> HIDE DEF a, b, e, f, o
  <2> QED
    BY <1>1, <2>1, <2>2, <2>3, <2>4
<1> QED
  BY <1>3, <1>5, <1>6, <1>7, <1>8, <1>9, <1>10, <1>11, <1>12, <1>13

LEMMA RenameTracked ==
  ASSUME Typed, Ordered, NEW t \in Tasks, NEW s \in StreamSet, RenameCurrent(t, s), Tracked(s)
  PROVE  Tracked(s)' /\ (files[s].current < files[s].end => NextToSend(s)' >= NextToSend(s))
<1> DEFINE a == files[s].old
           b == files[s].current
           e == files[s].end
           f == cursor[s].file
           o == cursor[s].offset
<1>1. /\ a \in Nat /\ b \in Nat /\ e \in Nat /\ a <= b /\ b <= e
      /\ f \in {0, 1} /\ o \in Nat /\ InFlight(s) \in Nat /\ NextToSend(s) \in Nat
  BY Places
<1>2. /\ UNCHANGED <<nvs, batch, accepted, skipped>> /\ unsaved'[s] = TRUE
      /\ clean' => clean /\ b < e
      /\ Kept(s) /\ ~Doing(t, "save_file", s)'
      /\ files'[s].end = e
      /\ IF b < e THEN files'[s].old = b /\ files'[s].current = e
         ELSE files'[s].old = a /\ files'[s].current = b
      /\ cursor'[s].file = 0 /\ cursor'[s].offset = IF f = 0 THEN 0 ELSE o
      /\ f = 1 => torn' = torn /\ InFlight(s)' = InFlight(s)
      /\ f = 0 => InFlight(s)' = 0
      /\ \A u \in Tasks : u # t /\ Doing(u, "save_file", s) /\ f = 0 => torn'[u]
      /\ IF b < e THEN NextToSend(s)' = IF f = 0 THEN b ELSE NextToSend(s)
         ELSE NextToSend(s)' = a
  BY RenameMoves DEF Tracked
<1>3. /\ f = 1 => o + InFlight(s) <= e - b
      /\ f = 0 => NextToSend(s) <= b
      /\ Doing("loop", "advance", s) /\ torn["loop"] => f = 0
  <2>1. f = 1 => o + InFlight(s) <= e - b
    BY DEF Tracked, Placed, CurrentLength
  <2>2. f = 0 => NextToSend(s) <= b
    BY <1>1, NextIs
  <2>3. Doing("loop", "advance", s) /\ torn["loop"] => f = 0
    BY DEF Tracked, Placed
  <2> QED
    BY <2>1, <2>2, <2>3
<1>4. b < e => NextToSend(s)' >= NextToSend(s)
  BY <1>1, <1>2, <1>3
<1>5. Placed(s)'
  <2>1. cursor'[s].offset + InFlight(s)' <= files'[s].current - files'[s].old
    BY <1>1, <1>2, <1>3
  <2>2. Doing("loop", "advance", s)' /\ torn'["loop"] => cursor'[s].offset = 0
    BY <1>1, <1>2, <1>3 DEF Kept
  <2> QED
    BY <1>2, <2>1, <2>2 DEF Placed, OldLength
<1>6. SentUpTo(s, NextToSend(s))'
  <2>1. \/ NextToSend(s)' = files'[s].old
        \/ NextToSend(s)' = NextToSend(s) /\ files'[s].old = b
    BY <1>1, <1>2
  <2>2. \A k \in OnFlashNumbers(s)' :
           k \in Int /\ k >= files'[s].old /\ (files'[s].old = b => k \in OnFlashNumbers(s))
    BY <1>1, <1>2 DEF OnFlashNumbers
  <2>3. \A k \in OnFlashNumbers(s) : k < NextToSend(s) => k \in accepted[s] \cup skipped[s]
    BY DEF Tracked, SentUpTo
  <2>4. files'[s].old \in Nat
    BY <1>1, <1>2
  <2> QED
    BY <1>2, <2>1, <2>2, <2>3, <2>4 DEF SentUpTo
<1>7. SavedTrue(s)'
  BY <1>2 DEF SavedTrue
<1>8. SentBefore(s)'
  <2> SUFFICES ASSUME clean', NEW n \in accepted[s] PROVE n < NextToSend(s)'
    BY <1>2 DEF SentBefore
  <2>1. n \in Int /\ n < NextToSend(s)
    BY <1>2 DEF Tracked, SentBefore, Typed
  <2>2. NextToSend(s)' >= NextToSend(s) /\ NextToSend(s)' \in Nat
    BY <1>1, <1>2, <1>4
  <2> QED
    BY <1>1, <2>1, <2>2
<1>9. ASSUME NEW u \in Tasks, Doing(u, "save_file", s)', ~torn'[u]
      PROVE  u # t /\ Doing(u, "save_file", s) /\ f = 1 /\ torn' = torn
  BY <1>1, <1>2, <1>9 DEF Kept
<1>10. HalfSaved("loop", s)' /\ HalfSaved("web", s)'
  <2>1. ASSUME NEW u \in Tasks PROVE HalfSaved(u, s)'
    <3> SUFFICES ASSUME Doing(u, "save_file", s)', ~torn'[u]
                 PROVE  /\ nvs'[s].offset <= cursor'[s].offset
                        /\ u = "loop" => nvs'[s].offset = cursor'[s].offset
      BY DEF HalfSaved
    <3>1. HalfSaved(u, s)
      BY DEF Tracked, Tasks
    <3> QED
      BY <1>2, <1>9, <3>1 DEF HalfSaved
  <2> QED
    BY <2>1 DEF Tasks
<1>11. WebSaved(s)'
  <2> SUFFICES ASSUME clean', Late(s)', Doing("web", "save_file", s)', ~torn'["web"]
               PROVE  nvs'[s].offset = cursor'[s].offset
    BY <1>2 DEF WebSaved
  <2>1. Doing("web", "save_file", s) /\ f = 1 /\ torn' = torn /\ Late(s) /\ clean
    BY <1>2, <1>9 DEF Kept, Tasks
  <2>2. nvs[s].offset = cursor[s].offset
    BY <2>1 DEF Tracked, WebSaved
  <2> QED
    BY <1>2, <2>1, <2>2
<1> QED
  BY <1>4, <1>5, <1>6, <1>7, <1>8, <1>10, <1>11 DEF Tracked

\* A save does not move the stream; a saved cursor is not ahead of the one in RAM.
LEMMA SaveMoves ==
  ASSUME Typed, Ordered, NEW t \in Tasks, NEW s \in StreamSet,
         SaveOffset(t, s) \/ SaveFile(t, s)
  PROVE  /\ files'[s] = files[s] /\ cursor'[s] = cursor[s] /\ accepted'[s] = accepted[s]
         /\ skipped'[s] = skipped[s] /\ clean' = clean /\ batch' = batch
         /\ Doing("loop", "advance", s)' <=> Doing("loop", "advance", s)
         /\ Doing("loop", "advance", s) => t = "web"
         /\ \A o \in Tasks : o # t => /\ torn'[o] = torn[o]
                                      /\ Doing(o, "save_file", s)' <=> Doing(o, "save_file", s)
         /\ InFlight(s)' = InFlight(s) /\ NextToSend(s)' = NextToSend(s)
<1>1. files' = files /\ cursor' = cursor /\ accepted' = accepted /\ skipped' = skipped
      /\ clean' = clean /\ batch' = batch
  BY DEF SaveOffset, SaveFile, histories
<1>2. \A o \in Tasks : o # t => torn'[o] = torn[o]
  <2>1. torn \in [Tasks -> BOOLEAN]
    BY DEF Typed
  <2>2. torn' = torn \/ torn' = [torn EXCEPT ![t] = FALSE]
    BY Zenon DEF SaveOffset, SaveFile, histories
  <2> QED
    BY <2>1, <2>2, Zenon
<1>3. /\ \A o \in Tasks : o # t => agenda'[o] = agenda[o]
      /\ ~Doing(t, "advance", s)'
  BY NothingPlain, Popped DEF SaveOffset, SaveFile
<1>4. ~Doing(t, "advance", s)
  BY DEF SaveOffset, SaveFile, Doing, Op
<1>5. /\ Doing("loop", "advance", s)' <=> Doing("loop", "advance", s)
      /\ Doing("loop", "advance", s) => t = "web"
      /\ \A o \in Tasks : o # t => (Doing(o, "save_file", s)' <=> Doing(o, "save_file", s))
  BY <1>3, <1>4 DEF Doing, Tasks
<1>6. InFlight(s)' = InFlight(s)
  BY <1>1, <1>2, <1>5 DEF InFlight, Tasks
<1>7. NextToSend(s)' = NextToSend(s)
  BY <1>1, <1>6 DEF NextToSend, OldLength
<1> QED
  BY <1>1, <1>2, <1>5, <1>6, <1>7

\* What a save leaves of the invariant without looking at NVS.
LEMMA SaveLeaves ==
  ASSUME Typed, Ordered, NEW t \in Tasks, NEW s \in StreamSet,
         SaveOffset(t, s) \/ SaveFile(t, s), Tracked(s)
  PROVE  Placed(s)' /\ SentUpTo(s, NextToSend(s))' /\ SentBefore(s)'
<1>1. /\ files'[s] = files[s] /\ cursor'[s] = cursor[s] /\ accepted'[s] = accepted[s]
      /\ skipped'[s] = skipped[s] /\ clean' = clean
      /\ Doing("loop", "advance", s)' <=> Doing("loop", "advance", s)
      /\ Doing("loop", "advance", s) => t = "web"
      /\ \A o \in Tasks : o # t => torn'[o] = torn[o]
      /\ InFlight(s)' = InFlight(s) /\ NextToSend(s)' = NextToSend(s)
  BY SaveMoves
<1>2. Placed(s)'
  <2>1. Doing("loop", "advance", s)' => Doing("loop", "advance", s) /\ torn'["loop"] = torn["loop"]
    BY <1>1 DEF Tasks
  <2> QED
    BY <1>1, <2>1 DEF Tracked, Placed, OldLength, CurrentLength
<1>3. SentUpTo(s, NextToSend(s))'
  BY <1>1 DEF Tracked, SentUpTo, OnFlashNumbers
<1>4. SentBefore(s)'
  BY <1>1 DEF Tracked, SentBefore
<1> QED
  BY <1>2, <1>3, <1>4

\* A place in NVS that is not beyond the cursor in the cursor's file is behind what is
\* sent next.
LEMMA BehindNext ==
  ASSUME Typed, NEW s \in StreamSet, Placed(s), NEW x \in Nat, x <= cursor[s].offset
  PROVE  /\ cursor[s].file = 1 => /\ x <= files[s].end - files[s].current
                                  /\ files[s].current + x <= NextToSend(s)
         /\ x <= files[s].current - files[s].old => files[s].old + x <= NextToSend(s)
<1>1. /\ files[s].old \in Nat /\ files[s].current \in Nat /\ files[s].end \in Nat
      /\ files[s].old <= files[s].current /\ files[s].current <= files[s].end
      /\ cursor[s].file \in {0, 1} /\ cursor[s].offset \in Nat /\ InFlight(s) \in Nat
  BY Places
<1>2. /\ cursor[s].file = 1 => /\ cursor[s].offset + InFlight(s) <= files[s].end - files[s].current
                               /\ NextToSend(s) = files[s].current + cursor[s].offset + InFlight(s)
      /\ cursor[s].file = 0 =>
           NextToSend(s) = IF cursor[s].offset + InFlight(s) < files[s].current - files[s].old
                           THEN files[s].old + cursor[s].offset + InFlight(s) ELSE files[s].current
  BY NextIs DEF Placed, CurrentLength
<1> DEFINE a == files[s].old
           b == files[s].current
           e == files[s].end
           f == cursor[s].file
           o == cursor[s].offset
           i == InFlight(s)
           n == NextToSend(s)
<1> HIDE DEF a, b, e, f, o, i, n
<1>3. /\ a \in Nat /\ b \in Nat /\ e \in Nat /\ a <= b /\ b <= e /\ f \in {0, 1} /\ o \in Nat
      /\ i \in Nat /\ x <= o
      /\ f = 1 => o + i <= e - b /\ n = b + o + i
      /\ f = 0 => n = IF o + i < b - a THEN a + o + i ELSE b
  BY <1>1, <1>2 DEF a, b, e, f, o, i, n
<1>4. (f = 1 => x <= e - b /\ b + x <= n) /\ (x <= b - a => a + x <= n)
  BY <1>3
<1> QED
  BY <1>4 DEF a, b, e, f, n

LEMMA SaveOffsetTracked ==
  ASSUME Typed, Ordered, NEW t \in Tasks, NEW s \in StreamSet, SaveOffset(t, s), Tracked(s)
  PROVE  Tracked(s)'
<1> DEFINE o == cursor[s].offset
<1>1. /\ files'[s] = files[s] /\ cursor'[s] = cursor[s] /\ clean' = clean
      /\ \A u \in Tasks : u # t => Doing(u, "save_file", s)' <=> Doing(u, "save_file", s)
      /\ NextToSend(s)' = NextToSend(s)
  BY SaveMoves
<1>2. nvs'[s] = [file |-> nvs[s].file, offset |-> o] /\ unsaved' = unsaved /\ torn' = torn
  <2>1. nvs[s] \in Cursors /\ DOMAIN nvs = StreamSet
    BY DEF Typed, TypeOK
  <2>2. nvs' = [nvs EXCEPT ![s].offset = o] /\ UNCHANGED histories
    BY DEF SaveOffset
  <2> QED
    BY <2>1, <2>2 DEF Cursors, histories
<1>3. /\ Doing(t, "save_file", s)'
      /\ \A u \in Tasks : u # t => agenda'[u] = agenda[u]
  BY NothingPlain, Popped DEF SaveOffset
<1>4. /\ cursor[s] \in Cursors /\ cursor[s].file \in {0, 1} /\ o \in Nat
      /\ nvs[s].file \in {0, 1}
  BY Places
<1>5. nvs'[s].file = nvs[s].file /\ nvs'[s].offset = o
  BY <1>2
<1>6. SavedTrue(s)'
  <2> SUFFICES ASSUME ~unsaved[s]
               PROVE  /\ nvs[s].file = 1 => cursor[s].file = 1 /\ o <= CurrentLength(s)
                      /\ o <= LengthAt(s, nvs[s])' => Position(s, nvs[s])' <= NextToSend(s)
    BY <1>1, <1>2, <1>5 DEF SavedTrue, CurrentLength
  <2>1. nvs[s].file = 1 => cursor[s].file = 1
    BY DEF Tracked, SavedTrue
  <2>2. /\ cursor[s].file = 1 => /\ o <= files[s].end - files[s].current
                                 /\ files[s].current + o <= NextToSend(s)
        /\ o <= files[s].current - files[s].old => files[s].old + o <= NextToSend(s)
    BY <1>4, BehindNext DEF Tracked
  <2>3. /\ nvs[s].file = 1 => Position(s, nvs[s])' = files[s].current + o
        /\ nvs[s].file = 0 => /\ Position(s, nvs[s])' = files[s].old + o
                              /\ LengthAt(s, nvs[s])' = files[s].current - files[s].old
    BY <1>1, <1>5 DEF Position, LengthAt, OldLength
  <2> QED
    BY <1>4, <2>1, <2>2, <2>3 DEF CurrentLength
<1>7. HalfSaved("loop", s)' /\ HalfSaved("web", s)'
  BY <1>1, <1>4, <1>5 DEF HalfSaved
<1>8. WebSaved(s)'
  <2> SUFFICES ASSUME clean', Late(s)', ~Doing("web", "save_file", s)'
               PROVE  unsaved'[s] \/ nvs'[s] = cursor'[s]
    BY <1>1, <1>5 DEF WebSaved
  <2>1. t = "loop"
    BY <1>3 DEF Tasks
  <2>2. Late(s) /\ clean /\ ~Doing("web", "save_file", s)
    BY <1>1, <1>3, <2>1 DEF Late, Tasks
  <2>3. unsaved[s] \/ nvs[s] = cursor[s]
    BY <2>2 DEF Tracked, WebSaved
  <2>4. nvs[s] = cursor[s] => nvs'[s] = cursor[s]
    BY <1>2, <1>4 DEF Cursors
  <2> QED
    BY <1>1, <1>2, <2>3, <2>4
<1> QED
  BY <1>6, <1>7, <1>8, SaveLeaves DEF Tracked

LEMMA SaveFileTracked ==
  ASSUME Typed, Ordered, NEW t \in Tasks, NEW s \in StreamSet, SaveFile(t, s), Tracked(s)
  PROVE  Tracked(s)'
<1> DEFINE f == cursor[s].file
           x == nvs[s].offset
<1>1. /\ files'[s] = files[s] /\ cursor'[s] = cursor[s] /\ clean' = clean
      /\ \A u \in Tasks : u # t => /\ torn'[u] = torn[u]
                                   /\ Doing(u, "save_file", s)' <=> Doing(u, "save_file", s)
      /\ NextToSend(s)' = NextToSend(s)
  BY SaveMoves
<1>2. nvs'[s] = [file |-> f, offset |-> x]
  <2>1. nvs[s] \in Cursors /\ DOMAIN nvs = StreamSet
    BY DEF Typed, TypeOK
  <2>2. nvs' = [nvs EXCEPT ![s].file = f]
    BY DEF SaveFile
  <2> QED
    BY <2>1, <2>2 DEF Cursors
<1>3. unsaved'[s] = torn[t]
  <2>1. DOMAIN unsaved = StreamSet
    BY DEF Typed
  <2> QED
    BY <2>1, Zenon DEF SaveFile
<1>4. /\ ~Doing(t, "save_file", s)' /\ Doing(t, "save_file", s)
      /\ t = "web" => (Late(s)' => Late(s))
      /\ \A u \in Tasks : u # t => agenda'[u] = agenda[u]
  BY NothingPlain, Popped DEF SaveFile
<1>5. /\ cursor[s] \in Cursors /\ f \in {0, 1} /\ cursor[s].offset \in Nat /\ x \in Nat
  BY Places
<1>6. nvs'[s].file = f /\ nvs'[s].offset = x
  BY <1>2
<1>7. HalfSaved(t, s)
  BY DEF Tracked, Tasks
<1>8. SavedTrue(s)'
  <2> SUFFICES ASSUME ~torn[t]
               PROVE  /\ f = 1 => x <= CurrentLength(s)
                      /\ x <= LengthAt(s, nvs[s])' => Position(s, nvs[s])' <= NextToSend(s)
    BY <1>1, <1>3, <1>6 DEF SavedTrue, CurrentLength
  <2>1. x <= cursor[s].offset
    BY <1>4, <1>7 DEF HalfSaved
  <2>2. /\ f = 1 => x <= files[s].end - files[s].current /\ files[s].current + x <= NextToSend(s)
        /\ x <= files[s].current - files[s].old => files[s].old + x <= NextToSend(s)
    BY <1>5, <2>1, BehindNext DEF Tracked
  <2>3. /\ f = 1 => Position(s, nvs[s])' = files[s].current + x
        /\ f = 0 => /\ Position(s, nvs[s])' = files[s].old + x
                    /\ LengthAt(s, nvs[s])' = files[s].current - files[s].old
    BY <1>1, <1>6 DEF Position, LengthAt, OldLength
  <2> QED
    BY <1>5, <2>2, <2>3 DEF CurrentLength
<1>9. HalfSaved("loop", s)' /\ HalfSaved("web", s)'
  <2>1. ASSUME NEW u \in Tasks PROVE HalfSaved(u, s)'
    <3>1. CASE u = t
      BY <1>4, <3>1 DEF HalfSaved
    <3>2. CASE u # t
      <4>1. HalfSaved(u, s)
        BY DEF Tracked, Tasks
      <4> QED
        BY <1>1, <1>6, <3>2, <4>1 DEF HalfSaved
    <3> QED
      BY <3>1, <3>2
  <2> QED
    BY <2>1 DEF Tasks
<1>10. x = cursor[s].offset => nvs'[s] = cursor[s]
  BY <1>2, <1>5 DEF Cursors
<1>11. WebSaved(s)'
  <2> SUFFICES ASSUME clean', Late(s)'
               PROVE  IF Doing("web", "save_file", s)'
                      THEN torn'["web"] \/ nvs'[s].offset = cursor'[s].offset
                      ELSE unsaved'[s] \/ nvs'[s] = cursor'[s]
    BY DEF WebSaved
  <2>1. Late(s) /\ clean
    BY <1>1, <1>4 DEF Late, Tasks
  <2>2. CASE t = "web"
    <3>1. torn["web"] \/ x = cursor[s].offset
      BY <1>4, <2>1, <2>2 DEF Tracked, WebSaved
    <3> QED
      BY <1>1, <1>3, <1>4, <1>10, <2>2, <3>1
  <2>3. CASE t = "loop"
    <3>1. CASE Doing("web", "save_file", s)
      <4>1. torn["web"] \/ x = cursor[s].offset
        BY <2>1, <3>1 DEF Tracked, WebSaved
      <4>2. Doing("web", "save_file", s)' /\ torn'["web"] = torn["web"]
        BY <1>1, <2>3, <3>1 DEF Tasks
      <4> QED
        BY <1>1, <1>6, <4>1, <4>2
    <3>2. CASE ~Doing("web", "save_file", s)
      <4>1. torn["loop"] \/ x = cursor[s].offset
        BY <1>4, <1>7, <2>3 DEF HalfSaved
      <4>2. ~Doing("web", "save_file", s)'
        BY <1>1, <2>3, <3>2 DEF Tasks
      <4> QED
        BY <1>1, <1>3, <1>10, <2>3, <4>1, <4>2
    <3> QED
      BY <3>1, <3>2
  <2> QED
    BY <2>2, <2>3 DEF Tasks
<1> QED
  BY <1>8, <1>9, <1>11, SaveLeaves DEF Tracked

\* A message: what is sent next is behind it, though it does not count yet.
LEMMA SendMoves ==
  ASSUME Typed, Ordered, TornBusy, NEW s \in StreamSet, SendBatch(s)
  PROVE  /\ UNCHANGED <<files, cursor, nvs, skipped, unsaved, torn, clean>>
         /\ agenda'["web"] = agenda["web"]
         /\ Doing("loop", "advance", s)' /\ ~Doing("loop", "save_file", s)' /\ ~torn["loop"]
         /\ InFlight(s) = 0 /\ InFlight(s)' = Count(s)
         /\ cursor[s].offset + Count(s) <= LengthAt(s, cursor[s])
         /\ NextToSend(s) = Position(s, cursor[s])
         /\ Count(s) \in Nat \ {0} /\ NextToSend(s)' = NextToSend(s) + Count(s)
         /\ NextToSend(s)' <= files[s].end
         /\ accepted'[s] = accepted[s] \cup NextToSend(s)..NextToSend(s) + Count(s) - 1
<1> DEFINE a == files[s].old
           b == files[s].current
           e == files[s].end
           f == cursor[s].file
           o == cursor[s].offset
           c == Count(s)
<1>1. /\ a \in Nat /\ b \in Nat /\ e \in Nat /\ a <= b /\ b <= e
      /\ f \in {0, 1} /\ o \in Nat /\ cursor[s] \in Cursors
  BY Places
<1>2. UNCHANGED <<files, cursor, nvs, skipped, unsaved, torn, clean>>
      /\ Idle("loop") /\ c > 0
  BY DEF SendBatch, Backfilling
<1>3. agenda'["web"] = agenda["web"] /\ Doing("loop", "advance", s)'
      /\ ~Doing("loop", "save_file", s)'
  <2>1. agenda \in [Tasks -> Seq(Ops)] /\ agenda' = [agenda EXCEPT !["loop"] = <<Op("advance", s)>>]
    BY DEF SendBatch, Typed, TypeOK
  <2>2. agenda'["loop"] = <<Op("advance", s)>> /\ agenda'["web"] = agenda["web"]
    BY <2>1 DEF Tasks
  <2> QED
    BY <2>2 DEF Doing, Op
<1>4. ~torn["loop"] /\ ~Doing("loop", "advance", s)
  BY <1>2 DEF TornBusy, Doing, Idle
<1>5. InFlight(s) = 0
  BY <1>4 DEF InFlight
<1>6. InFlight(s)' = c
  <2>1. batch' = c
    BY DEF SendBatch
  <2> QED
    BY <1>2, <1>3, <1>4, <2>1 DEF InFlight
<1>7. c \in Nat /\ o + c <= LengthAt(s, cursor[s])
  BY <1>2, CountIs
<1>8. /\ f = 1 => LengthAt(s, cursor[s]) = e - b /\ Position(s, cursor[s]) = b + o
      /\ f = 0 => LengthAt(s, cursor[s]) = b - a /\ Position(s, cursor[s]) = a + o
  BY <1>1, LengthAtIs
<1>9. /\ f = 1 => NextToSend(s) = b + o /\ NextToSend(s)' = b + o + c
      /\ f = 0 => /\ NextToSend(s) = IF o < b - a THEN a + o ELSE b
                  /\ NextToSend(s)' = IF o + c < b - a THEN a + o + c ELSE b
  <2>1. /\ NextToSend(s) = IF f = 1 THEN b + (o + 0) ELSE IF o + 0 < b - a THEN a + (o + 0) ELSE b
        /\ NextToSend(s)' = IF f = 1 THEN b + (o + c) ELSE IF o + c < b - a THEN a + (o + c) ELSE b
    BY <1>2, <1>5, <1>6 DEF NextToSend, OldLength
  <2> HIDE DEF a, b, f, o, c
  <2> QED
    BY <1>1, <1>7, <2>1
<1> DEFINE p == Position(s, cursor[s])
           l == LengthAt(s, cursor[s])
           n == NextToSend(s)
           m == NextToSend(s)'
<1>10. n = p /\ c \in Nat \ {0} /\ m = n + c /\ m <= e
  <2> HIDE DEF a, b, e, f, o, c, p, l, n, m
  <2> QED
    BY <1>1, <1>2, <1>7, <1>8, <1>9 DEF p, l, n, m
<1>11. accepted'[s] = accepted[s] \cup n..n + c - 1
  <2>1. accepted'[s] = accepted[s] \cup p..(p + c - 1)
    BY DEF SendBatch, Typed
  <2> QED
    BY <1>10, <2>1
<1> QED
  BY <1>2, <1>3, <1>4, <1>5, <1>6, <1>7, <1>10, <1>11

LEMMA SendTracked ==
  ASSUME Typed, Ordered, TornBusy, NEW s \in StreamSet, SendBatch(s), Tracked(s)
  PROVE  Tracked(s)'
<1>1. /\ UNCHANGED <<files, cursor, nvs, skipped, unsaved, torn, clean>>
      /\ agenda'["web"] = agenda["web"]
      /\ Doing("loop", "advance", s)' /\ ~Doing("loop", "save_file", s)' /\ ~torn["loop"]
      /\ InFlight(s)' = Count(s)
      /\ cursor[s].offset + Count(s) <= LengthAt(s, cursor[s])
      /\ Count(s) \in Nat \ {0} /\ NextToSend(s)' = NextToSend(s) + Count(s)
      /\ accepted'[s] = accepted[s] \cup NextToSend(s)..NextToSend(s) + Count(s) - 1
  BY SendMoves
<1>2. /\ files[s].old \in Nat /\ files[s].current \in Nat /\ files[s].end \in Nat
      /\ files[s].old <= files[s].current /\ files[s].current <= files[s].end
      /\ NextToSend(s) \in Nat /\ cursor[s].offset \in Nat
      /\ cursor[s].file \in {0, 1} /\ accepted[s] \subseteq Int
  BY Places DEF Typed
<1>3. Placed(s)'
  <2>1. /\ cursor[s].file = 1 => LengthAt(s, cursor[s]) = CurrentLength(s)
        /\ cursor[s].file = 0 => LengthAt(s, cursor[s]) = OldLength(s)
    BY DEF LengthAt
  <2>2. CurrentLength(s)' = CurrentLength(s) /\ OldLength(s)' = OldLength(s)
    BY <1>1 DEF CurrentLength, OldLength
  <2> QED
    BY <1>1, <2>1, <2>2 DEF Placed
<1> DEFINE n == NextToSend(s)
           m == NextToSend(s)'
           c == Count(s)
<1>4. n \in Nat /\ c \in Nat \ {0} /\ m = n + c
  BY <1>1, <1>2
<1>5. SentUpTo(s, NextToSend(s))'
  <2> SUFFICES ASSUME NEW k \in OnFlashNumbers(s), k < m PROVE k \in accepted'[s] \cup skipped'[s]
    BY <1>1 DEF SentUpTo, OnFlashNumbers
  <2>1. k \in Int
    BY <1>2 DEF OnFlashNumbers
  <2>2. CASE k < n
    BY <1>1, <2>2 DEF Tracked, SentUpTo
  <2>3. CASE ~(k < n)
    <3> HIDE DEF n, m, c
    <3>1. k \in n..n + c - 1
      BY <1>4, <2>1, <2>3
    <3> QED
      BY <1>1, <3>1 DEF n, c
  <2> QED
    BY <2>2, <2>3
<1>6. SavedTrue(s)'
  <2>1. m \in Nat /\ m >= n
    BY <1>4
  <2> QED
    BY <1>1, <1>2, <2>1, SavedStays
<1>7. SentBefore(s)'
  <2> SUFFICES ASSUME clean, NEW k \in accepted'[s] PROVE k < m
    BY <1>1 DEF SentBefore
  <2>1. CASE k \in accepted[s]
    <3>1. k \in Int /\ k < n
      BY <1>2, <2>1 DEF Tracked, SentBefore
    <3> HIDE DEF n, m, c
    <3> QED
      BY <1>4, <3>1
  <2>2. CASE k \in n..n + c - 1
    <3> HIDE DEF n, m, c
    <3> QED
      BY <1>4, <2>2
  <2> QED
    BY <1>1, <2>1, <2>2
<1>8. HalfSaved("loop", s)' /\ HalfSaved("web", s)' /\ WebSaved(s)'
  <2>1. /\ Doing("web", "save_file", s)' <=> Doing("web", "save_file", s)
        /\ Late(s)' <=> Late(s)
    BY <1>1 DEF Doing, Late
  <2>2. HalfSaved("loop", s)' /\ HalfSaved("web", s)'
    BY <1>1, <2>1 DEF Tracked, HalfSaved
  <2>3. WebSaved(s)'
    BY <1>1, <2>1 DEF Tracked, WebSaved
  <2> QED
    BY <2>2, <2>3
<1> QED
  BY <1>3, <1>5, <1>6, <1>7, <1>8 DEF Tracked

\* The message counts, which does not move the stream: unless the file is gone where it
\* was to count.
LEMMA AdvanceMoves ==
  ASSUME Typed, Ordered, NEW s \in StreamSet, Advance(s), Placed(s)
  PROVE  /\ UNCHANGED <<files, nvs, batch, accepted, unsaved>>
         /\ agenda'["web"] = agenda["web"]
         /\ ~Doing("loop", "advance", s)' /\ ~Doing("loop", "save_file", s)'
         /\ InFlight(s)' = 0
         /\ clean' => clean /\ ~torn["loop"] /\ ~Late(s)
         /\ cursor'[s].file \in {0, 1} /\ cursor'[s].offset \in Nat
         /\ cursor[s].file = 1 => cursor'[s].file = 1
         /\ cursor'[s].offset <= IF cursor'[s].file = 1 THEN CurrentLength(s) ELSE OldLength(s)
         /\ Doing("web", "save_file", s) /\ ~torn'["web"] =>
              ~torn["web"] /\ cursor'[s].offset >= cursor[s].offset
         /\ ~torn["loop"] => skipped'[s] = skipped[s] /\ NextToSend(s)' = NextToSend(s)
         /\ torn["loop"] => /\ skipped'[s] = skipped[s] \cup files[s].old..NextToSend(s)' - 1
                            /\ NextToSend(s) = files[s].old
         /\ NextToSend(s)' \in Nat /\ NextToSend(s)' >= NextToSend(s)
         /\ NextToSend(s)' <= files[s].end
<1> DEFINE a == files[s].old
           b == files[s].current
           e == files[s].end
           f == cursor[s].file
           o == cursor[s].offset
           c == Advanced(s, batch)
           n == NextToSend(s)
           m == NextToSend(s)'
<1>1. /\ a \in Nat /\ b \in Nat /\ e \in Nat /\ a <= b /\ b <= e
      /\ f \in {0, 1} /\ o \in Nat /\ batch \in Nat
  BY Places
<1>2. UNCHANGED <<files, nvs, batch, accepted, unsaved>> /\ Doing("loop", "advance", s)
  BY DEF Advance
<1>3. cursor'[s] = c
  BY DEF Advance, Typed, TypeOK
<1>4. /\ agenda'["web"] = agenda["web"]
      /\ ~Doing("loop", "advance", s)' /\ ~Doing("loop", "save_file", s)'
  <2>1. Then("loop", SaveSyncPos) \/ Then("loop", << >>)
    BY Zenon DEF Advance
  <2> QED
    BY <1>2, <2>1, NothingPlain, SavesPlain, Popped DEF Tasks
<1>5. InFlight(s)' = 0
  BY <1>4 DEF InFlight
<1>6. clean' => clean /\ ~torn["loop"] /\ ~Late(s)
  BY Zenon DEF Advance
<1>7. /\ c \in Cursors /\ c.file \in {0, 1} /\ c.offset \in Nat
      /\ f = 1 => c.file = 1 /\ c.offset = o + batch
      /\ f = 0 /\ o + batch < b - a => c.file = 0 /\ c.offset = o + batch
      /\ f = 0 /\ ~(o + batch < b - a) => c.file = 1 /\ c.offset = 0
  BY <1>1, AdvancedIs DEF Cursors
<1>8. m = IF c.file = 1 THEN b + c.offset ELSE IF c.offset < b - a THEN a + c.offset ELSE b
  <2>1. m = IF c.file = 1 THEN b + (c.offset + 0)
            ELSE IF c.offset + 0 < b - a THEN a + (c.offset + 0) ELSE b
    BY <1>2, <1>3, <1>5 DEF NextToSend, OldLength
  <2> QED
    BY <1>7, <2>1
<1>9. /\ ~torn["loop"] => /\ f = 1 => o + batch <= e - b /\ n = b + o + batch
                          /\ f = 0 => n = IF o + batch < b - a THEN a + o + batch ELSE b
      /\ torn["loop"] => f = 0 /\ o = 0 /\ n = IF 0 < b - a THEN a ELSE b
  <2>1. InFlight(s) = IF torn["loop"] THEN 0 ELSE batch
    BY <1>2 DEF InFlight
  <2>2. n = IF f = 1 THEN b + (o + InFlight(s))
            ELSE IF o + InFlight(s) < b - a THEN a + (o + InFlight(s)) ELSE b
    BY DEF NextToSend, OldLength
  <2>3. /\ f = 1 => o + InFlight(s) <= e - b
        /\ torn["loop"] => f = 0 /\ o = 0
    BY <1>2 DEF Placed, CurrentLength
  <2> HIDE DEF a, b, e, f, o, n
  <2> QED
    BY <1>1, <2>1, <2>2, <2>3
<1>10. /\ ~torn["loop"] => m = n
       /\ torn["loop"] => n = a /\ m = Position(s, c)
       /\ m \in Nat /\ m >= n /\ m <= e
       /\ c.offset <= IF c.file = 1 THEN e - b ELSE b - a
  <2>1. /\ c.file = 1 => Position(s, c) = b + c.offset
        /\ c.file = 0 => Position(s, c) = a + c.offset
    BY DEF Position
  <2> DEFINE d == c.file
             x == c.offset
             p == Position(s, c)
  <2> HIDE DEF a, b, e, f, o, c, n, m, d, x, p
  <2>2. /\ d \in {0, 1} /\ x \in Nat
        /\ f = 1 => d = 1 /\ x = o + batch
        /\ f = 0 /\ o + batch < b - a => d = 0 /\ x = o + batch
        /\ f = 0 /\ ~(o + batch < b - a) => d = 1 /\ x = 0
        /\ m = IF d = 1 THEN b + x ELSE IF x < b - a THEN a + x ELSE b
        /\ d = 1 => p = b + x
        /\ d = 0 => p = a + x
    BY <1>7, <1>8, <2>1 DEF d, x, p
  <2>3. /\ ~torn["loop"] => m = n
        /\ torn["loop"] => n = a /\ m = p
        /\ m \in Nat /\ m >= n /\ m <= e
        /\ x <= IF d = 1 THEN e - b ELSE b - a
    <3>1. CASE torn["loop"]
      BY <1>1, <1>9, <2>2, <3>1
    <3>2. CASE ~torn["loop"]
      BY <1>1, <1>9, <2>2, <3>2
    <3> QED
      BY <3>1, <3>2
  <2> QED
    BY <2>3 DEF d, x, p
<1>11. /\ ~torn["loop"] => skipped'[s] = skipped[s]
       /\ torn["loop"] => skipped'[s] = skipped[s] \cup a..m - 1
  <2>1. CASE torn["loop"]
    <3>1. skipped' = [skipped EXCEPT ![s] = @ \cup files[s].old..(Position(s, c) - 1)]
      BY <2>1 DEF Advance
    <3>2. skipped'[s] = skipped[s] \cup a..(Position(s, c) - 1)
      BY <3>1 DEF Typed
    <3> QED
      BY <1>10, <2>1, <3>2
  <2>2. CASE ~torn["loop"]
    BY <2>2 DEF Advance
  <2> QED
    BY <2>1, <2>2
<1>12. ASSUME Doing("web", "save_file", s), ~torn'["web"]
       PROVE  ~torn["web"] /\ c.offset >= o
  <2>1. torn'["web"] = (torn["web"] \/ (c.file # f /\ Doing("web", "save_file", s)))
    <3>1. torn \in [Tasks -> BOOLEAN]
      BY DEF Typed
    <3>2. torn' = [torn EXCEPT !["loop"] = FALSE,
                               !["web"] = @ \/ (/\ c.file # cursor[s].file
                                                /\ Doing("web", "save_file", s))]
      BY DEF Advance
    <3> HIDE DEF c
    <3> QED
      BY <3>1, <3>2, Zenon DEF Tasks
  <2>2. ~torn["web"] /\ c.file = f
    BY <1>12, <2>1
  <2> QED
    BY <1>1, <1>7, <2>2
<1> QED
  BY <1>2, <1>3, <1>4, <1>5, <1>6, <1>7, <1>10, <1>11, <1>12 DEF CurrentLength, OldLength

LEMMA AdvanceTracked ==
  ASSUME Typed, Ordered, NEW s \in StreamSet, Advance(s), Tracked(s)
  PROVE  Tracked(s)'
<1> DEFINE n == NextToSend(s)
           m == NextToSend(s)'
<1>1. /\ UNCHANGED <<files, nvs, batch, accepted, unsaved>>
      /\ agenda'["web"] = agenda["web"]
      /\ ~Doing("loop", "advance", s)' /\ ~Doing("loop", "save_file", s)'
      /\ InFlight(s)' = 0
      /\ clean' => clean /\ ~torn["loop"] /\ ~Late(s)
      /\ cursor'[s].file \in {0, 1} /\ cursor'[s].offset \in Nat
      /\ cursor[s].file = 1 => cursor'[s].file = 1
      /\ cursor'[s].offset <= IF cursor'[s].file = 1 THEN CurrentLength(s) ELSE OldLength(s)
      /\ Doing("web", "save_file", s) /\ ~torn'["web"] =>
           ~torn["web"] /\ cursor'[s].offset >= cursor[s].offset
      /\ ~torn["loop"] => skipped'[s] = skipped[s] /\ m = n
      /\ torn["loop"] => skipped'[s] = skipped[s] \cup files[s].old..m - 1
      /\ m \in Nat /\ m >= n
  BY AdvanceMoves DEF Tracked
<1>2. /\ files[s].old \in Nat /\ files[s].end \in Nat
      /\ n \in Nat /\ cursor[s].offset \in Nat /\ cursor[s].file \in {0, 1}
      /\ nvs[s].offset \in Nat /\ nvs[s].file \in {0, 1} /\ nvs[s] \in Cursors
  BY Places
<1>3. CurrentLength(s)' = CurrentLength(s) /\ OldLength(s)' = OldLength(s)
  BY <1>1 DEF CurrentLength, OldLength
<1> HIDE DEF n, m
<1>4. Placed(s)'
  BY <1>1, <1>3 DEF Placed
<1>5. SentUpTo(s, NextToSend(s))'
  <2> SUFFICES ASSUME NEW k \in OnFlashNumbers(s), k < m PROVE k \in accepted[s] \cup skipped'[s]
    BY <1>1 DEF SentUpTo, OnFlashNumbers, m
  <2>1. k \in Int /\ k >= files[s].old
    BY <1>2 DEF OnFlashNumbers
  <2>2. CASE torn["loop"]
    <3>1. k \in files[s].old..m - 1
      BY <1>1, <1>2, <2>1
    <3> QED
      BY <1>1, <2>2, <3>1
  <2>3. CASE ~torn["loop"]
    BY <1>1, <2>3 DEF Tracked, SentUpTo, n
  <2> QED
    BY <2>2, <2>3
<1>6. SavedTrue(s)'
  <2> SUFFICES ASSUME ~unsaved[s]
               PROVE  /\ nvs[s].file = 1 => cursor'[s].file = 1 /\ nvs[s].offset <= CurrentLength(s)
                      /\ nvs[s].offset <= LengthAt(s, nvs[s]) => Position(s, nvs[s]) <= m
    <3>1. /\ LengthAt(s, nvs[s])' = LengthAt(s, nvs[s])
          /\ Position(s, nvs[s])' = Position(s, nvs[s])
      BY <1>1 DEF LengthAt, Position, OldLength, CurrentLength
    <3> QED
      BY <1>1, <1>3, <3>1 DEF SavedTrue, m
  <2>1. /\ nvs[s].file = 1 => cursor[s].file = 1 /\ nvs[s].offset <= CurrentLength(s)
        /\ nvs[s].offset <= LengthAt(s, nvs[s]) => Position(s, nvs[s]) <= n
    BY DEF Tracked, SavedTrue, n
  <2>2. Position(s, nvs[s]) \in Nat
    BY <1>2, LengthAtIs
  <2> QED
    BY <1>1, <1>2, <2>1, <2>2
<1>7. SentBefore(s)'
  BY <1>1 DEF Tracked, SentBefore, n, m
<1>8. /\ Doing("web", "save_file", s)' <=> Doing("web", "save_file", s)
      /\ Late(s)' <=> Late(s)
  BY <1>1 DEF Doing, Late
<1>9. HalfSaved("loop", s)' /\ HalfSaved("web", s)'
  <2> SUFFICES ASSUME Doing("web", "save_file", s), ~torn'["web"]
               PROVE  nvs[s].offset <= cursor'[s].offset
    BY <1>1, <1>8 DEF HalfSaved
  <2>1. nvs[s].offset <= cursor[s].offset /\ cursor'[s].offset >= cursor[s].offset
    BY <1>1 DEF Tracked, HalfSaved
  <2> QED
    BY <1>1, <1>2, <2>1
<1>10. WebSaved(s)'
  BY <1>1, <1>8 DEF WebSaved
<1> QED
  BY <1>4, <1>5, <1>6, <1>7, <1>9, <1>10 DEF Tracked

\* What a boot reads from NVS, and what of a stream it leaves behind or repeats.
LEMMA BootMoves ==
  ASSUME Typed, NEW s \in StreamSet, PowerCut \/ Restart
  PROVE  /\ UNCHANGED <<files, nvs, accepted>> /\ cursor'[s] = Loaded(s)
         /\ \A t \in Tasks : agenda'[t] = << >> /\ ~torn'[t]
         /\ InFlight(s)' = 0
         /\ ~unsaved'[s] => Loaded(s) = nvs[s]
         /\ NextToSend(s)' = Position(s, Loaded(s))
         /\ NextToSend(s)' \in files[s].old..files[s].end
         /\ skipped'[s] = skipped[s] \cup
              IF unsaved[s] THEN files[s].old..NextToSend(s)' - 1 ELSE {}
         /\ clean' => Restart /\ clean /\ Loaded(s) = nvs[s] /\ ~unsaved[s]
                      /\ ~Doing("loop", "advance", s)
<1> DEFINE a == files[s].old
           b == files[s].current
           e == files[s].end
           c == Loaded(s)
           p == Position(s, c)
<1>1. /\ a \in Nat /\ b \in Nat /\ e \in Nat /\ a <= b /\ b <= e
  BY Places
<1>2. Boot
  BY DEF PowerCut, Restart
<1>3. UNCHANGED <<files, nvs, accepted>> /\ cursor'[s] = c
      /\ \A t \in Tasks : agenda'[t] = << >> /\ ~torn'[t]
  BY <1>2 DEF Boot
<1>4. InFlight(s)' = 0
  BY <1>3 DEF InFlight, Doing, Tasks
<1>5. ~unsaved'[s] => c = nvs[s]
  <2>1. unsaved' = [u \in StreamSet |-> Loaded(u) # nvs[u]]
    BY <1>2 DEF Boot
  <2> QED
    BY <2>1, Zenon
<1>6. c \in Cursors /\ c.offset <= LengthAt(s, c)
  BY LoadedWithin
<1>7. /\ c.file \in {0, 1} /\ c.offset \in Nat
      /\ c.file = 1 => c.offset <= e - b /\ p = b + c.offset
      /\ c.file = 0 => c.offset <= b - a /\ p = a + c.offset
  BY <1>6, LengthAtIs
<1>8. NextToSend(s)' = IF c.file = 1 THEN b + (c.offset + 0)
                       ELSE IF c.offset + 0 < b - a THEN a + (c.offset + 0) ELSE b
  BY <1>3, <1>4 DEF NextToSend, OldLength
<1>9. NextToSend(s)' = p /\ p \in a..e
  <2> DEFINE m == NextToSend(s)'
             d == c.file
             x == c.offset
  <2> HIDE DEF a, b, e, c, p, m, d, x
  <2>1. /\ d \in {0, 1} /\ x \in Nat
        /\ d = 1 => x <= e - b /\ p = b + x
        /\ d = 0 => x <= b - a /\ p = a + x
        /\ m = IF d = 1 THEN b + (x + 0) ELSE IF x + 0 < b - a THEN a + (x + 0) ELSE b
    BY <1>7, <1>8 DEF d, x, m
  <2>2. m = p /\ p \in a..e
    BY <1>1, <2>1
  <2> QED
    BY <2>2 DEF m
<1>10. skipped'[s] = skipped[s] \cup IF unsaved[s] THEN a..p - 1 ELSE {}
  BY <1>2 DEF Boot
<1>11. clean' => Restart /\ clean /\ c = nvs[s] /\ ~unsaved[s] /\ ~Doing("loop", "advance", s)
  BY Zenon DEF PowerCut, Restart
<1> QED
  BY <1>3, <1>4, <1>5, <1>9, <1>10, <1>11

\* An orderly restart goes on where the stream was.
LEMMA RestartStays ==
  ASSUME Typed, Ordered, NEW s \in StreamSet, PowerCut \/ Restart, Tracked(s), clean'
  PROVE  NextToSend(s)' = NextToSend(s)
<1>1. /\ UNCHANGED <<files, nvs, accepted>> /\ cursor'[s] = Loaded(s)
      /\ InFlight(s)' = 0
      /\ Restart /\ clean /\ Loaded(s) = nvs[s] /\ ~unsaved[s] /\ ~Doing("loop", "advance", s)
  BY BootMoves
<1>2. Late(s) /\ ~Doing("web", "save_file", s)
  <2> DEFINE q == agenda["web"]
  <2>1. Doing("web", "restart", Streams[1])
    BY <1>1 DEF Restart
  <2>2. q \in Seq(Ops) /\ q # << >> /\ InOrder(q) /\ Head(q) = Op("restart", Streams[1])
    BY <2>1 DEF Typed, TypeOK, Ordered, Doing, Tasks
  <2>3. q = <<Op("restart", Streams[1])>>
    BY <2>2, TailInOrder DEF Op
  <2>4. Late(s)
    <3>1. \A i \in DOMAIN q : q[i] = Op("restart", Streams[1])
      BY <2>3
    <3> QED
      BY <2>2, <3>1 DEF Late, Op
  <2> QED
    BY <2>2, <2>4 DEF Doing, Op
<1>3. nvs[s] = cursor[s]
  BY <1>1, <1>2 DEF Tracked, WebSaved
<1>4. InFlight(s) = 0
  BY <1>1 DEF InFlight
<1> QED
  BY <1>1, <1>3, <1>4 DEF NextToSend, OldLength

\* A cursor that NVS had in full does not move the stream on.
LEMMA BootBehind ==
  ASSUME Typed, NEW s \in StreamSet, PowerCut \/ Restart, Tracked(s), ~unsaved[s]
  PROVE  NextToSend(s)' <= NextToSend(s)
<1>1. NextToSend(s)' = Position(s, Loaded(s))
  BY BootMoves
<1>2. CASE Loaded(s) = nvs[s]
  BY <1>1, <1>2, LoadedWithin DEF Tracked, SavedTrue
<1>3. CASE Loaded(s) # nvs[s]
  <2>1. files[s].old <= NextToSend(s)
    BY Places, NextIs
  <2> QED
    BY <1>1, <1>3, <2>1, LoadedWithin
<1> QED
  BY <1>2, <1>3

LEMMA BootTracked ==
  ASSUME Typed, Ordered, NEW s \in StreamSet, PowerCut \/ Restart, Tracked(s)
  PROVE  Tracked(s)'
<1> DEFINE c == Loaded(s)
           n == NextToSend(s)
           m == NextToSend(s)'
<1>1. /\ UNCHANGED <<files, nvs, accepted>> /\ cursor'[s] = c
      /\ \A t \in Tasks : agenda'[t] = << >> /\ ~torn'[t]
      /\ InFlight(s)' = 0
      /\ ~unsaved'[s] => c = nvs[s]
      /\ m = Position(s, c)
      /\ m \in files[s].old..files[s].end
      /\ skipped'[s] = skipped[s] \cup IF unsaved[s] THEN files[s].old..m - 1 ELSE {}
      /\ clean' => clean
  BY BootMoves
<1>2. /\ c \in Cursors /\ c.offset <= LengthAt(s, c) /\ c.file \in {0, 1} /\ c.offset \in Nat
      /\ c # nvs[s] => m = files[s].old
      /\ c.file = 1 => c.offset <= CurrentLength(s)
      /\ c.file = 0 => c.offset <= OldLength(s)
  BY <1>1, LoadedWithin, LengthAtIs DEF LengthAt
<1>3. /\ files[s].old \in Nat /\ files[s].current \in Nat /\ files[s].end \in Nat /\ n \in Nat
  BY Places
<1>4. /\ CurrentLength(s)' = CurrentLength(s) /\ OldLength(s)' = OldLength(s)
      /\ LengthAt(s, nvs[s])' = LengthAt(s, nvs[s])
      /\ Position(s, nvs[s])' = Position(s, nvs[s])
  BY <1>1 DEF CurrentLength, OldLength, LengthAt, Position
<1>5. \A t \in Tasks, h \in {"save_file", "advance"} : ~Doing(t, h, s)'
  BY <1>1 DEF Doing
<1>6. Placed(s)'
  BY <1>1, <1>2, <1>4, <1>5 DEF Placed, Tasks
<1> HIDE DEF n, m, c
<1>7. SentUpTo(s, NextToSend(s))'
  <2> SUFFICES ASSUME NEW k \in OnFlashNumbers(s), k < m PROVE k \in accepted[s] \cup skipped'[s]
    BY <1>1 DEF SentUpTo, OnFlashNumbers, m
  <2>1. k \in Int /\ k >= files[s].old
    BY <1>3 DEF OnFlashNumbers
  <2>2. CASE unsaved[s]
    <3>1. k \in files[s].old..m - 1
      BY <1>1, <1>3, <2>1
    <3> QED
      BY <1>1, <2>2, <3>1
  <2>3. CASE ~unsaved[s]
    <3>1. m <= n
      BY <2>3, BootBehind DEF m, n
    <3>2. k < n
      BY <1>1, <1>3, <2>1, <3>1
    <3> QED
      BY <1>1, <3>2 DEF Tracked, SentUpTo, n
  <2> QED
    BY <2>2, <2>3
<1>8. SavedTrue(s)'
  <2> SUFFICES ASSUME c = nvs[s]
               PROVE  /\ nvs[s].file = 1 => c.file = 1 /\ nvs[s].offset <= CurrentLength(s)
                      /\ nvs[s].offset <= LengthAt(s, nvs[s]) => Position(s, nvs[s]) <= m
    BY <1>1, <1>4 DEF SavedTrue, m
  <2>1. m \in Int
    BY <1>1, <1>3
  <2> QED
    BY <1>1, <1>2, <2>1
<1>9. SentBefore(s)'
  <2>1. clean' => m = n
    BY RestartStays DEF m, n
  <2> QED
    BY <1>1, <2>1 DEF Tracked, SentBefore, n, m
<1>10. HalfSaved("loop", s)' /\ HalfSaved("web", s)'
  BY <1>5 DEF HalfSaved, Tasks
<1>11. WebSaved(s)'
  BY <1>1 DEF WebSaved, Late, Tasks
<1> QED
  BY <1>6, <1>7, <1>8, <1>9, <1>10, <1>11 DEF Tracked

-----------------------------------------------------------------------------
(* The invariant is inductive.                                             *)

\* What upsets the main loop happens while it saves or counts.
LEMMA TornBusyStep ==
  ASSUME Typed, Ordered, TornBusy, [Next]_vars
  PROVE  TornBusy'
<1> SUFFICES ASSUME torn'["loop"]
             PROVE  \E s \in StreamSet :
                      Doing("loop", "save_file", s)' \/ Doing("loop", "advance", s)'
  BY DEF TornBusy
<1>1. /\ agenda \in [Tasks -> Seq(Ops)] /\ torn \in [Tasks -> BOOLEAN]
  BY DEF Typed, TypeOK
<1>2. ASSUME agenda'["loop"] = agenda["loop"],
             torn["loop"] \/ \E s \in StreamSet :
               Doing("loop", "save_file", s) \/ Doing("loop", "advance", s)
      PROVE  \E s \in StreamSet :
               Doing("loop", "save_file", s)' \/ Doing("loop", "advance", s)'
  BY <1>2 DEF TornBusy, Doing
<1>3. ASSUME torn["loop"] PROVE ~Idle("loop")
  BY <1>3 DEF TornBusy, Doing, Idle
<1>4. CASE Quiet \/ StopMqtt
  <2>1. torn' = torn
    BY <1>4 DEF Quiet, StopMqtt, histories
  <2>2. agenda'["loop"] = agenda["loop"]
    BY <1>1, <1>3, <1>4, <2>1 DEF Quiet, StopMqtt, Then, Tasks
  <2> QED
    BY <1>2, <2>1, <2>2
<1>5. CASE PowerCut \/ Restart
  BY <1>5 DEF PowerCut, Restart, Boot, Tasks
<1>6. ASSUME NEW s \in StreamSet, OnFlash("web", s)
      PROVE  \E u \in StreamSet :
               Doing("loop", "save_file", u)' \/ Doing("loop", "advance", u)'
  <2>1. PICK h, p : /\ Plain(p) /\ Doing("web", h, s) /\ Then("web", p)
                    /\ h = "save_offset" => p = << >>
    BY <1>6, Pops DEF Tasks
  <2>2. agenda'["loop"] = agenda["loop"]
    BY <1>1, <2>1 DEF Then, Tasks
  <2>3. torn["loop"] \/ Doing("loop", "save_file", s) \/ Doing("loop", "advance", s)
    <3>1. \/ torn' = torn \/ torn' = [torn EXCEPT !["web"] = FALSE]
          \/ torn' = [torn EXCEPT !["loop"] =
                        @ \/ Doing("loop", "save_file", s) \/ Doing("loop", "advance", s)]
      <4>1. Other("web") = "loop"
        BY DEF Other
      <4>2. CASE AppendFile("web", s) \/ Clear("web", s) \/ RemoveOld("web", s)
                 \/ SaveOffset("web", s)
        BY <4>2, Zenon DEF AppendFile, Clear, RemoveOld, SaveOffset, histories
      <4>3. CASE RenameCurrent("web", s)
        BY <4>1, <4>3, Zenon DEF RenameCurrent, Upset
      <4>4. CASE SaveFile("web", s)
        BY <4>4, Zenon DEF SaveFile
      <4> QED
        BY <1>6, <4>2, <4>3, <4>4 DEF OnFlash
    <3>2. "loop" \in Tasks /\ "web" \in Tasks /\ "loop" # "web"
      BY DEF Tasks
    <3> QED
      BY <1>1, <3>1, <3>2, Zenon
  <2> QED
    BY <1>2, <2>2, <2>3
<1>7. ASSUME NEW s \in StreamSet, OnFlash("loop", s) PROVE FALSE
  <2>1. CASE SaveFile("loop", s)
    BY <1>1, <2>1, Zenon DEF SaveFile, Tasks
  <2>2. CASE ~SaveFile("loop", s)
    <3>1. torn["loop"]
      <4>1. \/ torn' = torn
            \/ torn' = [torn EXCEPT !["web"] =
                          @ \/ Doing("web", "save_file", s) \/ Doing("web", "advance", s)]
        <5>1. Other("loop") = "web"
          BY DEF Other
        <5>2. CASE AppendFile("loop", s) \/ Clear("loop", s) \/ RemoveOld("loop", s)
                   \/ SaveOffset("loop", s)
          BY <5>2, Zenon DEF AppendFile, Clear, RemoveOld, SaveOffset, histories
        <5>3. CASE RenameCurrent("loop", s)
          BY <5>1, <5>3, Zenon DEF RenameCurrent, Upset
        <5> QED
          BY <1>7, <2>2, <5>2, <5>3 DEF OnFlash
      <4>2. "loop" \in Tasks /\ "web" \in Tasks /\ "loop" # "web"
        BY DEF Tasks
      <4> QED
        BY <1>1, <4>1, <4>2, Zenon
    <3>2. \E h \in {"append", "clear", "remove", "rename", "save_offset"} : Doing("loop", h, s)
      BY <1>7, <2>2 DEF OnFlash, AppendFile, Clear, RemoveOld, RenameCurrent, SaveOffset
    <3> DEFINE h == Head(agenda["loop"]).op
    <3>3. h \in {"append", "clear", "remove", "rename", "save_offset"}
      BY <3>2 DEF Doing, Op
    <3>4. h \in {"save_file", "advance"}
      <4>1. PICK u \in StreamSet : Doing("loop", "save_file", u) \/ Doing("loop", "advance", u)
        BY <3>1 DEF TornBusy
      <4> QED
        BY <4>1 DEF Doing, Op
    <3> HIDE DEF h
    <3> QED
      BY <3>3, <3>4
  <2> QED
    BY <2>1, <2>2
<1>8. ASSUME NEW s \in StreamSet, Advance(s) PROVE FALSE
  <2>1. torn' = [torn EXCEPT !["loop"] = FALSE,
                             !["web"] = @ \/ (/\ Advanced(s, batch).file # cursor[s].file
                                              /\ Doing("web", "save_file", s))]
    BY <1>8 DEF Advance
  <2> QED
    BY <1>1, <2>1, Zenon DEF Tasks
<1>9. ASSUME NEW s \in StreamSet, SendBatch(s) PROVE FALSE
  BY <1>3, <1>9 DEF SendBatch, Backfilling
<1> QED
  BY <1>4, <1>5, <1>6, <1>7, <1>8, <1>9, Moves DEF Tasks

LEMMA TrackedStep ==
  ASSUME Typed, Ordered, TornBusy, [Next]_vars, NEW u \in StreamSet, Tracked(u)
  PROVE  Tracked(u)'
<1>1. CASE Quiet \/ StopMqtt
  BY <1>1, QuietElsewhere, Untouched
<1>2. CASE PowerCut \/ Restart
  BY <1>2, BootTracked
<1>3. ASSUME NEW t \in Tasks, NEW s \in StreamSet, OnFlash(t, s) PROVE Tracked(u)'
  <2>1. CASE Clear(t, s)
    BY <2>1, ClearElsewhere, Untouched
  <2>2. CASE u # s
    BY <1>3, <2>2, Others, Untouched
  <2>3. CASE u = s /\ ~Clear(t, s)
    BY <1>3, <2>3, AppendTracked, RemoveTracked, RenameTracked, SaveOffsetTracked,
       SaveFileTracked DEF OnFlash
  <2> QED
    BY <2>1, <2>2, <2>3
<1>4. ASSUME NEW s \in StreamSet, Advance(s) PROVE Tracked(u)'
  <2>1. CASE u # s
    BY <1>4, <2>1, Others, Untouched DEF Tasks
  <2>2. CASE u = s
    BY <1>4, <2>2, AdvanceTracked
  <2> QED
    BY <2>1, <2>2
<1>5. ASSUME NEW s \in StreamSet, SendBatch(s) PROVE Tracked(u)'
  <2>1. CASE u # s
    BY <1>5, <2>1, SendOthers, Untouched
  <2>2. CASE u = s
    BY <1>5, <2>2, SendTracked
  <2> QED
    BY <2>1, <2>2
<1> QED
  BY <1>1, <1>2, <1>3, <1>4, <1>5, Moves

LEMMA InitInv == Init => Inv
<1> SUFFICES ASSUME Init PROVE Inv
  OBVIOUS
<1>1. /\ agenda = [t \in Tasks |-> << >>] /\ clean = TRUE /\ cuts = 0 /\ faults = 0
      /\ advances = 0 /\ batch = 0
      /\ files = [s \in StreamSet |-> [old |-> 0, current |-> 0, end |-> 0]]
      /\ nvs = [s \in StreamSet |-> [file |-> 1, offset |-> 0]] /\ cursor = nvs
      /\ buffered = [s \in StreamSet |-> 0] /\ mqtt = Offline
      /\ accepted = [s \in StreamSet |-> {}] /\ skipped = accepted
      /\ unsaved = [s \in StreamSet |-> FALSE] /\ torn = [t \in Tasks |-> FALSE]
  BY DEF Init
<1>2. Typed
  <2>1. BUFFER \in Nat \ {0} /\ SAVE_EVERY \in Nat \ {0} /\ BATCH \in Nat \ {0}
    BY DataLogAssumption
  <2>2. /\ files \in [StreamSet -> [old : Nat, current : Nat, end : Nat]]
        /\ \A s \in StreamSet : files[s].old = 0 /\ files[s].current = 0 /\ files[s].end = 0
    BY <1>1
  <2>3. nvs \in [StreamSet -> Cursors] /\ cursor \in [StreamSet -> Cursors]
    BY <1>1 DEF Cursors
  <2>4. agenda \in [Tasks -> Seq(Ops)]
    BY <1>1, NothingPlain DEF Plain
  <2>5. mqtt \in [connected : BOOLEAN, flush : BOOLEAN, check : BOOLEAN, active : BOOLEAN,
                  done : SUBSET StreamSet]
    BY <1>1, OfflineIs
  <2>6. buffered \in [StreamSet -> 0..BUFFER] /\ advances \in 0..SAVE_EVERY - 1
        /\ batch \in 0..BATCH
    BY <1>1, <2>1
  <2>7. TypeOK
    BY <2>2, <2>3, <2>4, <2>5, <2>6 DEF TypeOK
  <2>8. /\ accepted \in [StreamSet -> SUBSET Int] /\ skipped \in [StreamSet -> SUBSET Int]
        /\ cuts \in Nat /\ faults \in Nat
    BY <1>1
  <2>9. /\ unsaved \in [StreamSet -> BOOLEAN] /\ torn \in [Tasks -> BOOLEAN]
        /\ clean \in BOOLEAN
    BY <1>1, Zenon
  <2> QED
    BY <2>7, <2>8, <2>9 DEF Typed
<1>3. Ordered /\ TornBusy
  BY <1>1, NothingPlain DEF Plain, Ordered, TornBusy, Tasks
<1>4. ASSUME NEW s \in StreamSet PROVE Tracked(s)
  <2>1. /\ files[s].old = 0 /\ files[s].current = 0 /\ files[s].end = 0
        /\ cursor[s].file = 1 /\ cursor[s].offset = 0 /\ nvs[s].file = 1 /\ nvs[s].offset = 0
        /\ accepted[s] = {} /\ InFlight(s) = 0
        /\ \A t \in Tasks : agenda[t] = << >>
    BY <1>1 DEF InFlight, Doing, Tasks
  <2>2. \A t \in Tasks, h \in {"save_file", "advance"} : ~Doing(t, h, s)
    BY <2>1 DEF Doing
  <2>3. OnFlashNumbers(s) = {} /\ CurrentLength(s) = 0 /\ NextToSend(s) = 0
    BY <2>1 DEF OnFlashNumbers, CurrentLength, NextToSend
  <2>4. Placed(s) /\ SentUpTo(s, NextToSend(s)) /\ SentBefore(s)
    BY <2>1, <2>2, <2>3 DEF Placed, SentUpTo, SentBefore, Tasks
  <2>5. SavedTrue(s)
    BY <2>1, <2>3 DEF SavedTrue, Position
  <2>6. HalfSaved("loop", s) /\ HalfSaved("web", s) /\ WebSaved(s)
    BY <2>1, <2>2 DEF HalfSaved, WebSaved, Late, Tasks
  <2> QED
    BY <2>4, <2>5, <2>6 DEF Tracked
<1> QED
  BY <1>2, <1>3, <1>4 DEF Inv

LEMMA InvStep == Inv /\ [Next]_vars => Inv'
<1> SUFFICES ASSUME Inv, [Next]_vars PROVE Inv'
  OBVIOUS
<1>1. Typed /\ Ordered /\ TornBusy /\ \A s \in StreamSet : Tracked(s)
  BY DEF Inv
<1>2. Typed'
  BY <1>1, TypedStep
<1>3. Ordered'
  BY <1>1, AgendaStep
<1>4. TornBusy'
  BY <1>1, TornBusyStep
<1>5. \A s \in StreamSet : Tracked(s)'
  BY <1>1, TrackedStep
<1> QED
  BY <1>2, <1>3, <1>4, <1>5 DEF Inv

LEMMA Invariance == Spec => []Inv
<1>1. Init => Inv
  BY InitInv
<1>2. Inv /\ [Next]_vars => Inv'
  BY InvStep
<1> QED
  BY <1>1, <1>2, PTL DEF Spec

-----------------------------------------------------------------------------
(* The refinement: what each step does to a stream, seen as a Delivery.    *)

\* The step as one of Delivery's, which goes back only with a boot or when the other task
\* has rotated already.
Maps(s) ==
  /\ [D(s)!DeliveryNext]_(D(s)!deliveryVars)
  /\ NextToSend(s)' < NextToSend(s) => Boot \/ NothingToRename(s)

\* What is sent next is on the flash, or next to be.
LEMMA WithinFlash ==
  ASSUME Typed, NEW s \in StreamSet, Placed(s)
  PROVE  /\ NextToSend(s) \in files[s].old..files[s].end
         /\ cursor[s].file = 0 => NextToSend(s) <= files[s].current
         /\ cursor[s].file = 1 => NextToSend(s) >= files[s].current
<1>1. /\ files[s].old \in Nat /\ files[s].current \in Nat /\ files[s].end \in Nat
      /\ files[s].old <= files[s].current /\ files[s].current <= files[s].end
      /\ cursor[s].file \in {0, 1} /\ cursor[s].offset \in Nat /\ InFlight(s) \in Nat
  BY Places
<1>2. cursor[s].file = 1 => cursor[s].offset + InFlight(s) <= files[s].end - files[s].current
  BY DEF Placed, CurrentLength
<1> QED
  BY <1>1, <1>2, NextIs

\* A stream that does not move, or as a boot moves it.
LEMMA Displaces ==
  ASSUME Typed, NEW s \in StreamSet, Placed(s),
         files'[s].old = files[s].old, files'[s].end = files[s].end,
         accepted'[s] = accepted[s],
         NextToSend(s)' \in files[s].old..files[s].end,
         \/ NextToSend(s)' <= NextToSend(s) /\ skipped'[s] = skipped[s]
         \/ skipped'[s] = skipped[s] \cup files[s].old..NextToSend(s)' - 1,
         clean' => clean /\ NextToSend(s)' = NextToSend(s),
         NextToSend(s)' >= NextToSend(s) \/ Boot \/ NothingToRename(s)
  PROVE  Maps(s)
<1>1. D(s)!Displaced
  BY DEF D!Displaced
<1>2. NextToSend(s) \in Int /\ NextToSend(s)' \in Int
  BY WithinFlash, Places
<1> QED
  BY <1>1, <1>2 DEF Maps, D!DeliveryNext

LEMMA Stutters ==
  ASSUME Typed, NEW s \in StreamSet, Placed(s),
         files'[s].old = files[s].old, files'[s].end = files[s].end,
         accepted'[s] = accepted[s], skipped'[s] = skipped[s], clean' => clean,
         NextToSend(s)' = NextToSend(s)
  PROVE  Maps(s)
BY WithinFlash, Places, Displaces

LEMMA InitMaps == Init => \A s \in StreamSet : D(s)!DeliveryInit
<1> SUFFICES ASSUME Init, NEW s \in StreamSet PROVE D(s)!DeliveryInit
  OBVIOUS
<1>1. /\ files[s].old = 0 /\ files[s].current = 0 /\ files[s].end = 0
      /\ cursor[s].file = 1 /\ cursor[s].offset = 0
      /\ accepted[s] = {} /\ skipped[s] = {} /\ clean = TRUE /\ InFlight(s) = 0
  BY DEF Init, InFlight, Doing, Tasks
<1>2. NextToSend(s) = 0
  BY <1>1 DEF NextToSend
<1> QED
  BY <1>1, <1>2 DEF D!DeliveryInit

LEMMA ElsewhereMaps ==
  ASSUME Typed, NEW s \in StreamSet, Tracked(s), Elsewhere(s)
  PROVE  Maps(s)
BY Untouched, Stutters DEF Tracked, Elsewhere

LEMMA AppendMaps ==
  ASSUME Typed, Ordered, NEW t \in Tasks, NEW s \in StreamSet, AppendFile(t, s), Tracked(s)
  PROVE  Maps(s)
<1>1. /\ UNCHANGED <<cursor, nvs, batch, accepted, skipped, unsaved, torn, clean>>
      /\ files'[s].old = files[s].old
      /\ files'[s].end >= files[s].end /\ files'[s].end \in Nat
      /\ NextToSend(s)' = NextToSend(s)
  BY AppendMoves
<1>2. files[s].end \in Nat /\ NextToSend(s) \in Nat
  BY Places
<1>3. CASE files'[s].end = files[s].end
  BY <1>1, <1>3, Stutters DEF Tracked
<1>4. CASE files'[s].end # files[s].end
  <2>1. D(s)!Kept
    BY <1>1, <1>2, <1>4 DEF D!Kept
  <2> QED
    BY <1>1, <1>2, <2>1 DEF Maps, D!DeliveryNext
<1> QED
  BY <1>3, <1>4

\* The older file makes room: what was not sent of it is not sent any more.
LEMMA DropMaps ==
  ASSUME Typed, NEW s \in StreamSet, Placed(s),
         files'[s].old = files[s].current, files'[s].end = files[s].end,
         accepted'[s] = accepted[s], skipped'[s] = skipped[s], clean' = clean,
         NextToSend(s)' = IF cursor[s].file = 0 THEN files[s].current ELSE NextToSend(s)
  PROVE  Maps(s)
<1> DEFINE a == files[s].old
           b == files[s].current
           e == files[s].end
           f == cursor[s].file
           n == NextToSend(s)
           m == NextToSend(s)'
<1>1. /\ a \in Nat /\ b \in Nat /\ e \in Nat /\ a <= b /\ b <= e /\ f \in {0, 1}
  BY Places
<1>2. /\ n \in Int /\ n \in a..e
      /\ f = 0 => n <= b
      /\ f = 1 => n >= b
  BY <1>1, WithinFlash
<1>3. m = IF f = 0 THEN b ELSE n
  OBVIOUS
<1>4. m >= n
  <2> HIDE DEF a, b, e, f, n, m
  <2> QED
    BY <1>1, <1>2, <1>3
<1>5. CASE b = a
  <2>1. m = n
    <3> HIDE DEF a, b, e, f, n, m
    <3> QED
      BY <1>1, <1>2, <1>3, <1>5
  <2> QED
    BY <1>5, <2>1, Stutters
<1>6. CASE b # a
  <2>1. b \in a + 1..e /\ m = IF n < b THEN b ELSE n
    <3> HIDE DEF a, b, e, f, n, m
    <3> QED
      BY <1>1, <1>2, <1>3, <1>6
  <2>2. D(s)!Dropped
    BY <2>1 DEF D!Dropped
  <2>3. ~(m < n)
    <3>1. m \in Int
      BY <1>1, <1>2, <1>3
    <3> HIDE DEF n, m
    <3> QED
      BY <1>2, <1>4, <3>1
  <2> QED
    BY <2>2, <2>3 DEF Maps, D!DeliveryNext
<1> QED
  BY <1>5, <1>6

LEMMA RemoveMaps ==
  ASSUME Typed, Ordered, NEW t \in Tasks, NEW s \in StreamSet, RemoveOld(t, s), Tracked(s)
  PROVE  Maps(s)
<1>1. /\ UNCHANGED <<cursor, nvs, batch, accepted, skipped, unsaved, torn, clean>>
      /\ files'[s].old = files[s].current /\ files'[s].end = files[s].end
      /\ cursor[s].file = 0 => NextToSend(s)' = files[s].current
      /\ cursor[s].file = 1 => NextToSend(s)' = NextToSend(s)
  BY RemoveMoves
<1> QED
  BY <1>1, Places, DropMaps DEF Tracked

LEMMA RenameMaps ==
  ASSUME Typed, Ordered, NEW t \in Tasks, NEW s \in StreamSet, RenameCurrent(t, s), Tracked(s)
  PROVE  Maps(s)
<1>1. /\ UNCHANGED <<nvs, batch, accepted, skipped>>
      /\ clean' => clean /\ files[s].current < files[s].end
      /\ files'[s].end = files[s].end
      /\ IF files[s].current < files[s].end
         THEN files'[s].old = files[s].current ELSE files'[s].old = files[s].old
      /\ IF files[s].current < files[s].end
         THEN NextToSend(s)' = IF cursor[s].file = 0 THEN files[s].current ELSE NextToSend(s)
         ELSE NextToSend(s)' = files[s].old
  BY RenameMoves DEF Tracked
<1>2. /\ files[s].old \in Nat /\ files[s].current \in Nat /\ files[s].end \in Nat
      /\ files[s].old <= files[s].current /\ files[s].current <= files[s].end
  BY Places
<1>3. CASE files[s].current < files[s].end
  <2>1. clean' = clean
    <3>1. CurrentLength(s) > 0
      BY <1>2, <1>3 DEF CurrentLength
    <3>2. clean' = (clean /\ CurrentLength(s) > 0) /\ clean \in BOOLEAN
      BY Zenon DEF RenameCurrent, Typed
    <3> QED
      BY <3>1, <3>2, Zenon
  <2> QED
    BY <1>1, <1>3, <2>1, DropMaps DEF Tracked
<1>4. CASE ~(files[s].current < files[s].end)
  <2>1. CurrentLength(s) = 0
    BY <1>2, <1>4 DEF CurrentLength
  <2>2. NothingToRename(s)
    BY <2>1 DEF NothingToRename
  <2>3. NextToSend(s)' = files[s].old /\ NextToSend(s)' <= NextToSend(s)
        /\ NextToSend(s)' \in files[s].old..files[s].end
    BY <1>1, <1>2, <1>4, WithinFlash DEF Tracked
  <2> QED
    BY <1>1, <1>4, <2>2, <2>3, Displaces DEF Tracked
<1> QED
  BY <1>3, <1>4

LEMMA SaveMaps ==
  ASSUME Typed, Ordered, NEW t \in Tasks, NEW s \in StreamSet,
         SaveOffset(t, s) \/ SaveFile(t, s), Tracked(s)
  PROVE  Maps(s)
BY SaveMoves, Stutters DEF Tracked

LEMMA SendMaps ==
  ASSUME Typed, Ordered, TornBusy, NEW s \in StreamSet, SendBatch(s), Tracked(s)
  PROVE  Maps(s)
<1> DEFINE n == NextToSend(s)
           m == NextToSend(s)'
           c == Count(s)
           e == files[s].end
<1>1. /\ UNCHANGED <<files, skipped, clean>>
      /\ c \in Nat \ {0} /\ m = n + c /\ m <= e
      /\ accepted'[s] = accepted[s] \cup n..n + c - 1
  BY SendMoves
<1>2. n \in Nat /\ e \in Nat
  BY Places
<1>3. m \in n + 1..e /\ n + c - 1 = m - 1 /\ ~(m < n)
  <2> HIDE DEF n, m, c, e
  <2> QED
    BY <1>1, <1>2
<1>4. D(s)!Delivered
  <2>1. accepted'[s] = accepted[s] \cup n..m - 1
    BY <1>1, <1>3
  <2> QED
    BY <1>1, <1>3, <2>1 DEF D!Delivered
<1> QED
  BY <1>3, <1>4 DEF Maps, D!DeliveryNext

LEMMA AdvanceMaps ==
  ASSUME Typed, Ordered, NEW s \in StreamSet, Advance(s), Tracked(s)
  PROVE  Maps(s)
<1>1. /\ UNCHANGED <<files, accepted>>
      /\ clean' => clean /\ ~torn["loop"]
      /\ ~torn["loop"] => skipped'[s] = skipped[s] /\ NextToSend(s)' = NextToSend(s)
      /\ torn["loop"] => skipped'[s] = skipped[s] \cup files[s].old..NextToSend(s)' - 1
      /\ NextToSend(s)' \in Nat /\ NextToSend(s)' >= NextToSend(s)
      /\ NextToSend(s)' <= files[s].end
  BY AdvanceMoves DEF Tracked
<1>2. NextToSend(s)' \in files[s].old..files[s].end /\ NextToSend(s) \in Nat
  BY <1>1, Places, WithinFlash DEF Tracked
<1>3. CASE torn["loop"]
  BY <1>1, <1>2, <1>3, Displaces DEF Tracked
<1>4. CASE ~torn["loop"]
  BY <1>1, <1>4, Stutters DEF Tracked
<1> QED
  BY <1>3, <1>4

LEMMA BootMaps ==
  ASSUME Typed, Ordered, NEW s \in StreamSet, PowerCut \/ Restart, Tracked(s)
  PROVE  Maps(s)
<1>1. /\ UNCHANGED <<files, accepted>>
      /\ NextToSend(s)' \in files[s].old..files[s].end
      /\ skipped'[s] = skipped[s] \cup
           IF unsaved[s] THEN files[s].old..NextToSend(s)' - 1 ELSE {}
      /\ clean' => clean
  BY BootMoves
<1>2. clean' => NextToSend(s)' = NextToSend(s)
  BY RestartStays
<1>3. Boot
  BY DEF PowerCut, Restart
<1>4. CASE unsaved[s]
  BY <1>1, <1>2, <1>3, <1>4, Displaces DEF Tracked
<1>5. CASE ~unsaved[s]
  <2>1. NextToSend(s)' <= NextToSend(s) /\ skipped'[s] = skipped[s]
    BY <1>1, <1>5, BootBehind
  <2> QED
    BY <1>1, <1>2, <1>3, <2>1, Displaces DEF Tracked
<1> QED
  BY <1>4, <1>5

LEMMA StepMaps ==
  ASSUME Typed, Ordered, TornBusy, [Next]_vars, NEW u \in StreamSet, Tracked(u)
  PROVE  Maps(u)
<1>1. CASE Quiet \/ StopMqtt
  BY <1>1, QuietElsewhere, ElsewhereMaps
<1>2. CASE PowerCut \/ Restart
  BY <1>2, BootMaps
<1>3. ASSUME NEW t \in Tasks, NEW s \in StreamSet, OnFlash(t, s) PROVE Maps(u)
  <2>1. CASE Clear(t, s)
    BY <2>1, ClearElsewhere, ElsewhereMaps
  <2>2. CASE u # s
    BY <1>3, <2>2, Others, ElsewhereMaps
  <2>3. CASE u = s /\ ~Clear(t, s)
    BY <1>3, <2>3, AppendMaps, RemoveMaps, RenameMaps, SaveMaps DEF OnFlash
  <2> QED
    BY <2>1, <2>2, <2>3
<1>4. ASSUME NEW s \in StreamSet, Advance(s) \/ SendBatch(s) PROVE Maps(u)
  <2>1. CASE u # s
    BY <1>4, <2>1, Others, SendOthers, ElsewhereMaps DEF Tasks
  <2>2. CASE u = s
    BY <1>4, <2>2, AdvanceMaps, SendMaps
  <2> QED
    BY <2>1, <2>2
<1> QED
  BY <1>1, <1>2, <1>3, <1>4, Moves

-----------------------------------------------------------------------------
(* The theorems.                                                           *)

\* The two files of a stream and its cursor keep their types, and the boundaries
\* between the files their order, whatever DataLoggerModule appends, rotates and saves in
\* the main loop and, in on_stop, in the web server's task.
THEOREM TypeCorrect == Spec => []TypeOK
<1>1. Inv => TypeOK
  BY DEF Inv, Typed
<1> QED
  BY <1>1, Invariance, PTL

\* What the cursor of a stream has passed and the flash still holds was taken by the
\* MQTT client, through every rotation, refusal, power cut and restart, with the two tasks
\* at work at the same time; but for what a boot before the save of a moved cursor, two
\* halves of different cursors in NVS, or a message counted in the wrong file left behind.
THEOREM NothingSkippedHolds == Spec => []NothingSkipped
<1>1. ASSUME Inv, NEW s \in StreamSet, ~Astray(s), NEW n \in OnFlashNumbers(s),
             n < Position(s, cursor[s])
      PROVE  n \in accepted[s] \cup skipped[s]
  <2>1. Typed /\ Tracked(s)
    BY <1>1 DEF Inv
  <2>2. Position(s, cursor[s]) <= NextToSend(s)
    <3>1. /\ files[s].old \in Nat /\ files[s].current \in Nat
          /\ cursor[s].file \in {0, 1} /\ cursor[s].offset \in Nat /\ InFlight(s) \in Nat
          /\ cursor[s].file = 0 => cursor[s].offset <= files[s].current - files[s].old
      BY <1>1, <2>1, Places DEF Astray, OldLength
    <3> QED
      BY <2>1, <3>1, NextIs DEF Position
  <2>3. n \in Int /\ Position(s, cursor[s]) \in Int /\ NextToSend(s) \in Int
    BY <2>1, Places, LengthAtIs DEF OnFlashNumbers
  <2> QED
    BY <1>1, <2>1, <2>2, <2>3 DEF Tracked, SentUpTo
<1>2. Inv => NothingSkipped
  BY <1>1 DEF NothingSkipped
<1> QED
  BY <1>2, Invariance, PTL

\* backfill_publish_temp and its twin never send a record again, however often the
\* connection is lost and the unit restarts in order, although on_stop saves the cursors
\* while the backfill goes on: unless a message counts after that, which is one of the ends
\* of clean.
THEOREM SentOnceHolds == Spec => SentOnce
<1> DEFINE Once(s) == clean /\ SendBatch(s) =>
             Position(s, cursor[s])..(Position(s, cursor[s]) + Count(s) - 1) \cap accepted[s] = {}
<1>1. ASSUME Inv, [Next]_vars, NEW s \in StreamSet, clean, SendBatch(s)
      PROVE  Position(s, cursor[s])..(Position(s, cursor[s]) + Count(s) - 1) \cap accepted[s] = {}
  <2>1. Typed /\ Ordered /\ TornBusy /\ Tracked(s)
    BY <1>1 DEF Inv
  <2> DEFINE p == Position(s, cursor[s])
  <2>2. p = NextToSend(s) /\ Count(s) \in Nat
    BY <1>1, <2>1, SendMoves
  <2>3. p \in Nat /\ accepted[s] \subseteq Int
    BY <2>1, <2>2, Places DEF Typed
  <2>4. \A n \in accepted[s] : n < p
    BY <1>1, <2>1, <2>2 DEF Tracked, SentBefore
  <2> HIDE DEF p
  <2>5. p..(p + Count(s) - 1) \cap accepted[s] = {}
    <3>1. ASSUME NEW n \in p..(p + Count(s) - 1) PROVE n \notin accepted[s]
      <4>1. n \in Int /\ n >= p
        BY <2>2, <2>3, <3>1
      <4> QED
        BY <2>3, <2>4, <4>1
    <3> QED
      BY <3>1
  <2> QED
    BY <2>5 DEF p
<1>2. Inv /\ [Next]_vars => [\A s \in StreamSet : Once(s)]_vars
  BY <1>1
<1> QED
  BY <1>2, Invariance, PTL DEF Spec, SentOnce

\* A stream that reads nothing is reported as done (StreamDone, "done" on the way to
\* the cloud) only when all of it was sent, unless its cursor stands at the end of an
\* older file that was sent: then the newer file is not reached.
THEOREM DoneMeansSentHolds == Spec => DoneMeansSent
<1> DEFINE Sent(s) == StreamDone(s) /\ UNCHANGED faults =>
             Parked(s) \/ OnFlashNumbers(s) \subseteq accepted[s] \cup skipped[s]
<1>1. ASSUME Inv, NEW s \in StreamSet, StreamDone(s), UNCHANGED faults, ~Parked(s)
      PROVE  OnFlashNumbers(s) \subseteq accepted[s] \cup skipped[s]
  <2>1. Typed /\ Tracked(s)
    BY <1>1 DEF Inv
  <2>2. Count(s) = 0
    <3>1. faults \in Nat
      BY <2>1 DEF Typed
    <3>2. faults' = faults /\ (Count(s) = 0 \/ Fault)
      BY <1>1 DEF StreamDone
    <3> QED
      BY <3>1, <3>2 DEF Fault
  <2>3. /\ cursor[s].file \in {0, 1} /\ cursor[s].offset \in Nat /\ cursor[s] \in Cursors
        /\ files[s].old \in Nat /\ files[s].current \in Nat /\ files[s].end \in Nat
        /\ InFlight(s) \in Nat
    BY <2>1, Places
  <2>4. cursor[s].offset >= LengthAt(s, cursor[s])
    BY <2>1, <2>2, CountIs
  <2>5. cursor[s].file = 1
    BY <1>1, <2>3, <2>4 DEF Parked, LengthAt
  <2>6. NextToSend(s) >= files[s].end /\ NextToSend(s) \in Nat
    <3>1. LengthAt(s, cursor[s]) = files[s].end - files[s].current
      BY <2>1, <2>3, <2>5, LengthAtIs
    <3>2. NextToSend(s) = files[s].current + cursor[s].offset + InFlight(s)
      BY <2>1, <2>5, NextIs
    <3> QED
      BY <2>3, <2>4, <3>1, <3>2
  <2>7. \A n \in OnFlashNumbers(s) : n < NextToSend(s)
    BY <2>3, <2>6 DEF OnFlashNumbers
  <2> QED
    BY <2>1, <2>7 DEF Tracked, SentUpTo
<1>2. Inv /\ [Next]_vars => [\A s \in StreamSet : Sent(s)]_vars
  BY <1>1
<1> QED
  BY <1>2, Invariance, PTL DEF Spec, DoneMeansSent

\* Each stream implements Delivery: whatever rotations, saves, cuts and the two tasks
\* interrupt of one another, the backfill sends it in order, each record at least once, and
\* what passes records over says which. A restart before which nothing was sent or saved too
\* late goes on where the stream was.
THEOREM Refinement == Spec => Delivers
<1>1. Init => \A s \in StreamSet : D(s)!DeliveryInit
  BY InitMaps
<1>2. Inv /\ [Next]_vars => \A s \in StreamSet : Maps(s)
  BY StepMaps DEF Inv
<1>3. Inv /\ [Next]_vars =>
        [\A s \in StreamSet : /\ [D(s)!DeliveryNext]_(D(s)!deliveryVars)
                              /\ NextToSend(s)' < NextToSend(s) =>
                                   Boot \/ NothingToRename(s)]_vars
  BY <1>2 DEF Maps
<1> QED
  BY <1>1, <1>3, Invariance, PTL DEF Spec, Delivers
=============================================================================
