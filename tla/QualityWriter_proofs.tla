------------------------ MODULE QualityWriter_proofs ------------------------
(* The writer of the qualities: types, what a flush has saved, and that    *)
(* the file implements a lagging store.                                    *)
EXTENDS QualityWriter, TLAPS

(***************************************************************************)
(* What the first n of some writes make of a store.                        *)
(***************************************************************************)
Places(s, n, k) == {i \in 1 .. n : s[i].key = k}

MadeOf(f, b, s, n) ==
    /\ f \in Qualities
    /\ \A k \in QualityKey :
         \/ Places(s, n, k) = {} /\ f[k] = b[k]
         \/ \E i \in Places(s, n, k) :
               f[k] = s[i].value /\ \A j \in Places(s, n, k) : j <= i

LEMMA MadeOfIsHolds ==
    ASSUME NEW f, NEW n
    PROVE  Store!Holds(f, n) <=> MadeOf(f, loaded, written, n)
BY DEF Store!Holds, Store!Written, MadeOf, Places, Qualities

LEMMA MadeOfNone ==
    ASSUME NEW b \in Qualities, NEW s
    PROVE  MadeOf(b, b, s, 0)
<1>1. \A k \in QualityKey : Places(s, 0, k) = {}
  BY DEF Places
<1> QED BY <1>1 DEF MadeOf

(* Only the first n writes matter.                                         *)
LEMMA MadeOfSame ==
    ASSUME NEW f, NEW b, NEW s, NEW t, NEW n \in Nat, \A i \in 1 .. n : s[i] = t[i],
           MadeOf(f, b, s, n)
    PROVE  MadeOf(f, b, t, n)
<1>1. ASSUME NEW k
      PROVE  Places(s, n, k) = Places(t, n, k)
  BY DEF Places
<1>2. ASSUME NEW k, NEW i \in Places(s, n, k)
      PROVE  s[i] = t[i]
  BY DEF Places
<1> QED BY <1>1, <1>2 DEF MadeOf

(* One more write.                                                         *)
LEMMA MadeOfNext ==
    ASSUME NEW f, NEW b, NEW s, NEW n \in Nat, s[n + 1] \in QualityWrite,
           MadeOf(f, b, s, n)
    PROVE  MadeOf([f EXCEPT ![s[n + 1].key] = s[n + 1].value], b, s, n + 1)
<1> DEFINE x == s[n + 1]
           g == [f EXCEPT ![x.key] = x.value]
<1>1. x.key \in QualityKey /\ x.value \in 0 .. MaxQuality
  BY DEF QualityWrite
<1>2. f \in Qualities
  BY DEF MadeOf
<1>3. g \in Qualities /\ g[x.key] = x.value /\ \A k \in QualityKey : k # x.key => g[k] = f[k]
  BY <1>1, <1>2 DEF Qualities
<1>4. n + 1 \in Places(s, n + 1, x.key) /\ \A j \in Places(s, n + 1, x.key) : j <= n + 1
  BY DEF Places
<1>5. ASSUME NEW k \in QualityKey, k # x.key
      PROVE  Places(s, n + 1, k) = Places(s, n, k)
  BY <1>5 DEF Places
<1>6. ASSUME NEW k \in QualityKey
      PROVE  \/ Places(s, n + 1, k) = {} /\ g[k] = b[k]
             \/ \E i \in Places(s, n + 1, k) :
                   g[k] = s[i].value /\ \A j \in Places(s, n + 1, k) : j <= i
  <2>1. CASE k = x.key
    BY <1>3, <1>4, <2>1
  <2>2. CASE k # x.key
    <3>1. Places(s, n + 1, k) = Places(s, n, k) /\ g[k] = f[k]
      BY <1>3, <1>5, <2>2
    <3> QED BY <3>1 DEF MadeOf
  <2> QED BY <2>1, <2>2
<1> HIDE DEF g
<1>7. MadeOf(g, b, s, n + 1)
  BY <1>3, <1>6 DEF MadeOf
<1> QED BY <1>7 DEF g

(***************************************************************************)
(* The invariant.                                                          *)
(***************************************************************************)
(* What the channel holds: the writes the thread has not taken, in order,  *)
(* and at place f a flush, 0 if there is none.                             *)
Behind(f, i) == IF f # 0 /\ f < i THEN 1 ELSE 0

Sent(f) ==
    /\ f \in 0 .. Len(channel)
    /\ Len(written) = writer.taken + Len(channel) - (IF f = 0 THEN 0 ELSE 1)
    /\ \A i \in 1 .. Len(channel) : i # f =>
         /\ channel[i].kind = "write"
         /\ channel[i].write = written[writer.taken + i - Behind(f, i)]
    /\ f # 0 =>
         /\ channel[f].kind = "flush"
         /\ mark = writer.taken + f - 1
         /\ flushing \in {"asked", "abandoned"} /\ writer.at # "flushing"

(* The thread has been started and has not loaded the file.                *)
NotLoaded == loaded = disk /\ saved = 0 /\ writer.taken = 0 /\ ~over

RunningInv ==
    /\ \E f \in Nat : Sent(f)
    /\ writer.at = "flushing" =>
         mark <= writer.taken /\ flushing \in {"asked", "abandoned"}
    /\ writer.at = "closing" => ~open
    /\ saved <= writer.taken
    /\ IF writer.at = "loading" THEN NotLoaded
       ELSE MadeOf(writer.store, loaded, written, writer.taken)
    /\ writer.pending = 0 => saved = writer.taken

SavedInv == saved <= Len(written) /\ UnsavedPending

QualityInv ==
    /\ QualityTypeOK
    /\ Ended(writer) => ~open
    /\ ~Ended(writer) => RunningInv
    /\ SavedInv
    /\ FlushKeeps

LEMMA NoFlush ==
    ASSUME QualityTypeOK, RunningInv, flushing \notin {"asked", "abandoned"}
    PROVE  Sent(0) /\ writer.at # "flushing"
BY DEF RunningInv, Sent

LEMMA LoadedFacts ==
    ASSUME QualityAssumption, NEW d \in Qualities
    PROVE  /\ LoadedFrom(d) \in WriterType
           /\ LoadedFrom(d).at = "waiting" /\ LoadedFrom(d).store = d
           /\ LoadedFrom(d).pending = 0 /\ LoadedFrom(d).taken = 0
<1>1. 0 \in 0 .. (FlushAttempts + LastAttempts - 2)
  BY DEF QualityAssumption
<1> QED BY <1>1 DEF LoadedFrom, Nowhere, WriterType

LEMMA NowhereFacts ==
    ASSUME QualityAssumption
    PROVE  /\ Nowhere \in WriterType /\ Nowhere.at = "killed"
           /\ Starting \in WriterType /\ Starting.at = "loading"
           /\ Starting.pending = 0 /\ Starting.taken = 0
<1>1. 0 \in 0 .. (FlushAttempts + LastAttempts - 2) /\ 0 \in 0 .. MaxQuality
  BY DEF QualityAssumption
<1>2. [k \in QualityKey |-> 0] \in Qualities
  BY <1>1 DEF Qualities
<1> QED BY <1>1, <1>2 DEF Starting, Nowhere, WriterType

LEMMA NoServerFacts ==
    /\ NoServer \in Server /\ Ended(NoServer.writer)
    /\ OnlyOne \in [1 .. MaxOlder -> Server]
    /\ \A i \in 1 .. MaxOlder : Ended(OnlyOne[i].writer)
<1>1. Nowhere \in WriterType /\ Nowhere.at = "killed"
  BY NowhereFacts, QualityAssumption
<1>2. Nowhere.store \in Qualities /\ <<>> \in Seq(QualityCommand)
  BY <1>1 DEF WriterType
<1>3. NoServer \in Server /\ NoServer.writer = Nowhere
  BY <1>1, <1>2 DEF NoServer, Server
<1> QED BY <1>1, <1>3 DEF OnlyOne, Ended

LEMMA FreshChannel ==
    ASSUME NEW d \in Qualities, quality \in Qualities, disk = d, loaded = d,
           channel = <<>>, writer = Starting, flushing = "none", open = TRUE,
           older \in [1 .. MaxOlder -> Server],
           written = <<>>, saved = 0, over = FALSE, mark = 0
    PROVE  QualityInv
<1>1. Starting \in WriterType /\ Starting.at = "loading"
      /\ Starting.pending = 0 /\ Starting.taken = 0
  BY NowhereFacts, QualityAssumption
<1>2. QualityTypeOK
  <2>1. <<>> \in Seq(QualityCommand) /\ <<>> \in Seq(QualityWrite)
    OBVIOUS
  <2>2. channel \in Seq(QualityCommand) /\ written \in Seq(QualityWrite)
    BY <2>1
  <2> QED BY <1>1, <2>2 DEF QualityTypeOK
<1>3. NotLoaded
  BY <1>1 DEF NotLoaded
<1>4. Sent(0)
  BY <1>1 DEF Sent
<1>5. RunningInv
  BY <1>1, <1>3, <1>4 DEF RunningInv
<1>6. SavedInv
  BY <1>1 DEF SavedInv, UnsavedPending
<1> QED BY <1>1, <1>2, <1>5, <1>6 DEF QualityInv, FlushKeeps, Ended

LEMMA QualityInitInv == QualityInit => QualityInv
<1> SUFFICES ASSUME QualityInit PROVE QualityInv
  OBVIOUS
<1>1. disk \in Qualities
  BY QualityAssumption DEF QualityInit, Qualities, QualityAssumption
<1> QED BY <1>1, NoServerFacts, FreshChannel DEF QualityInit

(***************************************************************************)
(* The senders.                                                            *)
(***************************************************************************)
LEMMA PersistInv ==
    ASSUME QualityInv, NEW k \in QualityKey, Persist(k)
    PROVE  QualityInv'
<1> DEFINE w == [key |-> k, value |-> quality[k] + 1]
<1> USE QualityAssumption
<1>1. QualityTypeOK /\ open /\ quality[k] \in 0 .. MaxQuality /\ quality[k] < MaxQuality
  BY DEF QualityInv, Persist, QualityTypeOK, Qualities
<1>2. w \in QualityWrite
  BY <1>1 DEF QualityWrite, QualityAssumption
<1>3. /\ quality' = [quality EXCEPT ![k] = quality[k] + 1]
      /\ channel' = Append(channel, [kind |-> "write", write |-> w])
      /\ written' = Append(written, w)
      /\ UNCHANGED <<open, writer, disk, flushing, older, saved, over, loaded, mark>>
  <2>1. quality'[k] = quality[k] + 1
    BY <1>1 DEF Persist, QualityTypeOK, Qualities
  <2> QED BY <2>1 DEF Persist
<1>4. /\ ~Ended(writer)
      /\ RunningInv /\ SavedInv /\ FlushKeeps
  BY <1>1 DEF QualityInv
<1> HIDE DEF w
<1>5. QualityTypeOK'
  <2>1. quality' \in Qualities
    BY <1>1, <1>3 DEF QualityTypeOK, Qualities, QualityAssumption
  <2>2. [kind |-> "write", write |-> w] \in QualityCommand
    BY <1>2 DEF QualityCommand
  <2> QED BY <1>1, <1>2, <1>3, <2>1, <2>2 DEF QualityTypeOK
<1>6. written \in Seq(QualityWrite) /\ saved \in Nat /\ writer.taken \in Nat
      /\ channel \in Seq(QualityCommand)
  BY <1>1 DEF QualityTypeOK, WriterType
<1>7. /\ Len(written') = Len(written) + 1 /\ Len(channel') = Len(channel) + 1
      /\ \A i \in 1 .. Len(written) : written'[i] = written[i]
      /\ \A i \in 1 .. Len(channel) : channel'[i] = channel[i]
      /\ written'[Len(written) + 1] = w
      /\ channel'[Len(channel) + 1] = [kind |-> "write", write |-> w]
  BY <1>3, <1>6
<1>8. PICK f \in Nat : Sent(f)
  BY <1>4 DEF RunningInv
<1>9. Sent(f)'
  <2>1. ASSUME NEW i \in 1 .. Len(channel'), i # f
        PROVE  /\ channel'[i].kind = "write"
               /\ channel'[i].write = written'[writer.taken + i - Behind(f, i)]
    <3>1. CASE i \in 1 .. Len(channel)
      <4>1. /\ channel[i].kind = "write"
            /\ channel[i].write = written[writer.taken + i - Behind(f, i)]
        BY <1>8, <2>1, <3>1 DEF Sent
      <4>2. writer.taken + i - Behind(f, i) \in 1 .. Len(written)
        BY <1>6, <1>8, <2>1, <3>1, SMTT(20) DEF Sent, Behind
      <4> QED BY <1>7, <3>1, <4>1, <4>2
    <3>2. CASE i = Len(channel) + 1
      <4>1. Behind(f, i) = (IF f = 0 THEN 0 ELSE 1)
        BY <1>6, <1>8, <3>2 DEF Sent, Behind
      <4>2. Len(written) = writer.taken + Len(channel) - (IF f = 0 THEN 0 ELSE 1)
        BY <1>8 DEF Sent
      <4>3. writer.taken + i - Behind(f, i) = Len(written) + 1
        BY <1>6, <3>2, <4>1, <4>2
      <4> QED BY <1>7, <3>2, <4>3
    <3> QED BY <1>6, <1>7, <2>1, <3>1, <3>2
  <2>2. f # 0 => channel'[f].kind = "flush"
    BY <1>6, <1>7, <1>8 DEF Sent
  <2>3. f \in 0 .. Len(channel')
        /\ Len(written') = writer.taken + Len(channel') - (IF f = 0 THEN 0 ELSE 1)
    <3>1. f \in 0 .. Len(channel)
          /\ Len(written) = writer.taken + Len(channel) - (IF f = 0 THEN 0 ELSE 1)
      BY <1>8 DEF Sent
    <3> QED BY <1>6, <1>7, <3>1
  <2>4. f # 0 => mark' = writer'.taken + f - 1
                 /\ flushing' \in {"asked", "abandoned"} /\ writer'.at # "flushing"
    BY <1>3, <1>8 DEF Sent
  <2> QED BY <1>3, <2>1, <2>2, <2>3, <2>4 DEF Sent, Behind
<1>10. writer.taken <= Len(written)
  BY <1>6, <1>8 DEF Sent
<1>11. writer.at # "loading" => MadeOf(writer.store, loaded, written', writer.taken)
  <2>1. \A i \in 1 .. writer.taken : written[i] = written'[i]
    BY <1>6, <1>7, <1>10
  <2>2. writer.at # "loading" => MadeOf(writer.store, loaded, written, writer.taken)
    BY <1>4 DEF RunningInv
  <2> QED BY <1>6, <2>1, <2>2, MadeOfSame
<1>12. RunningInv'
  BY <1>3, <1>4, <1>9, <1>11 DEF RunningInv, NotLoaded
<1>13. SavedInv'
  BY <1>3, <1>4, <1>6, <1>7 DEF SavedInv, UnsavedPending
<1> QED BY <1>3, <1>4, <1>5, <1>12, <1>13 DEF QualityInv, FlushKeeps, Ended

LEMMA AskFlushInv ==
    ASSUME QualityInv, AskFlush
    PROVE  QualityInv'
<1>1. /\ QualityTypeOK /\ open /\ flushing \notin {"asked", "abandoned"}
      /\ channel' = Append(channel, [kind |-> "flush"])
      /\ flushing' = "asked" /\ mark' = Len(written)
      /\ UNCHANGED <<quality, open, writer, disk, older, written, saved, over, loaded>>
  BY DEF QualityInv, AskFlush
<1>2. ~Ended(writer) /\ RunningInv /\ SavedInv
  BY <1>1 DEF QualityInv
<1>3. Sent(0) /\ writer.at # "flushing"
  BY <1>1, <1>2, NoFlush
<1>4. written \in Seq(QualityWrite) /\ writer.taken \in Nat /\ channel \in Seq(QualityCommand)
  BY <1>1 DEF QualityTypeOK, WriterType
<1>5. QualityTypeOK'
  <2>1. [kind |-> "flush"] \in QualityCommand
    BY DEF QualityCommand
  <2>2. channel' \in Seq(QualityCommand) /\ mark' \in Nat
    BY <1>1, <1>4, <2>1
  <2> QED BY <1>1, <2>2 DEF QualityTypeOK
<1>6. PICK f \in Nat : f = Len(channel) + 1
  BY <1>4
<1>7. Len(channel') = f /\ channel'[f] = [kind |-> "flush"]
      /\ \A i \in 1 .. Len(channel) : channel'[i] = channel[i]
  BY <1>1, <1>4, <1>6
<1>8. f \in Nat \ {0} /\ Len(written) = writer.taken + f - 1
  BY <1>3, <1>4, <1>6 DEF Sent
<1>9. ASSUME NEW i \in 1 .. f, i # f
      PROVE  /\ channel'[i].kind = "write"
             /\ channel'[i].write = written[writer.taken + i - Behind(f, i)]
  <2>1. i \in 1 .. Len(channel) /\ i # 0 /\ Behind(f, i) = 0 /\ Behind(0, i) = 0
    BY <1>4, <1>6, <1>9 DEF Behind
  <2> QED BY <1>3, <1>7, <2>1 DEF Sent
<1>10. Sent(f)'
  <2>1. f \in 0 .. Len(channel')
        /\ Len(written') = writer'.taken + Len(channel') - (IF f = 0 THEN 0 ELSE 1)
    BY <1>1, <1>4, <1>7, <1>8
  <2>2. \A i \in 1 .. Len(channel') : i # f =>
         /\ channel'[i].kind = "write"
         /\ channel'[i].write = written'[writer'.taken + i - Behind(f, i)]
    BY <1>1, <1>7, <1>9
  <2>3. /\ channel'[f].kind = "flush"
        /\ mark' = writer'.taken + f - 1
        /\ flushing' \in {"asked", "abandoned"} /\ writer'.at # "flushing"
    BY <1>1, <1>3, <1>7, <1>8
  <2> QED BY <2>1, <2>2, <2>3 DEF Sent, Behind
<1>11. RunningInv'
  BY <1>1, <1>2, <1>3, <1>8, <1>10 DEF RunningInv, NotLoaded
<1>12. SavedInv'
  BY <1>1, <1>2 DEF SavedInv, UnsavedPending
<1> QED BY <1>1, <1>2, <1>5, <1>11, <1>12 DEF QualityInv, FlushKeeps, Ended

LEMMA FlushTimeoutInv ==
    ASSUME QualityInv, FlushTimeout
    PROVE  QualityInv'
<1>1. /\ flushing = "asked" /\ flushing' = "abandoned"
      /\ UNCHANGED <<quality, channel, open, writer, disk, older, written, saved, over,
                     loaded, mark>>
  BY DEF FlushTimeout, qualityHistory
<1>2. QualityTypeOK'
  BY <1>1 DEF QualityInv, QualityTypeOK
<1>3. ASSUME NEW f \in Nat, Sent(f)
      PROVE  Sent(f)'
  BY <1>1, <1>3 DEF Sent, Behind
<1>4. RunningInv => RunningInv'
  BY <1>1, <1>3 DEF RunningInv, NotLoaded
<1>5. SavedInv'
  BY <1>1 DEF QualityInv, SavedInv, UnsavedPending
<1> QED BY <1>1, <1>2, <1>4, <1>5 DEF QualityInv, FlushKeeps, Ended

LEMMA CloseInv ==
    ASSUME QualityInv, Close
    PROVE  QualityInv'
<1>1. /\ open' = FALSE /\ open = TRUE
      /\ UNCHANGED <<quality, channel, writer, disk, flushing, older, written, saved, over,
                     loaded, mark>>
  BY DEF QualityInv, QualityTypeOK, Close, qualityHistory
<1>2. QualityTypeOK'
  BY <1>1 DEF QualityInv, QualityTypeOK
<1>3. ASSUME NEW f \in Nat, Sent(f)
      PROVE  Sent(f)'
  BY <1>1, <1>3 DEF Sent, Behind
<1>4. RunningInv => RunningInv'
  BY <1>1, <1>3 DEF RunningInv, NotLoaded
<1>5. SavedInv'
  BY <1>1 DEF QualityInv, SavedInv, UnsavedPending
<1> QED BY <1>1, <1>2, <1>4, <1>5 DEF QualityInv, FlushKeeps, Ended

(***************************************************************************)
(* The writer thread.                                                      *)
(***************************************************************************)
LEMMA SentStays ==
    ASSUME NEW f \in Nat, Sent(f), UNCHANGED <<channel, written, mark>>,
           writer'.taken = writer.taken,
           f # 0 => flushing' \in {"asked", "abandoned"} /\ writer'.at # "flushing"
    PROVE  Sent(f)'
BY DEF Sent, Behind

(* A save, or a step without one, of a thread that has taken nothing.      *)
LEMMA StoreSteps ==
    ASSUME QualityTypeOK, RunningInv, SavedInv, NEW w \in WriterType,
           w.store = writer.store, w.taken = writer.taken,
           writer.at \notin {"loading", "killed"}, w.at # "loading",
           UNCHANGED channel, UNCHANGED senders,
           \/ SaveStore(w)
           \/ WriterBecomes(w) /\ w.pending = writer.pending /\ UNCHANGED onDisk
    PROVE  /\ flushing' \in {"none", "asked", "abandoned", "kept", "failed"} => QualityTypeOK'
           /\ SavedInv' /\ saved <= saved'
           /\ writer'.at = w.at /\ writer'.taken = writer.taken
           /\ saved' <= writer'.taken
           /\ MadeOf(writer'.store, loaded', written', writer'.taken)
           /\ writer'.pending = 0 => saved' = writer'.taken
<1>1. /\ saved \in Nat /\ writer.taken \in Nat /\ saved <= writer.taken
      /\ writer.store \in Qualities
      /\ MadeOf(writer.store, loaded, written, writer.taken)
  BY DEF QualityTypeOK, WriterType, RunningInv, SavedInv
<1>2. writer.taken <= Len(written)
  <2>1. PICK f \in Nat : Sent(f)
    BY DEF RunningInv
  <2> QED BY <1>1, <2>1 DEF Sent, QualityTypeOK
<1>3. UNCHANGED <<channel, quality, open, older, written, loaded, mark>>
  BY DEF senders
<1>4. CASE SaveStore(w)
  <2>1. /\ writer' \in WriterType /\ writer'.at = w.at
        /\ writer'.store = w.store /\ writer'.taken = w.taken /\ writer'.pending = 0
        /\ disk' = w.store /\ saved' = w.taken /\ over' = FALSE
    BY <1>4 DEF SaveStore, WriterBecomes, WriterType
  <2>2. saved' <= Len(written')
    BY <1>1, <1>2, <1>3, <2>1 DEF QualityTypeOK
  <2>3. SavedInv'
    BY <2>1, <2>2 DEF SavedInv, UnsavedPending
  <2>4. flushing' \in {"none", "asked", "abandoned", "kept", "failed"} => QualityTypeOK'
    BY <1>1, <1>3, <2>1 DEF QualityTypeOK
  <2> QED BY <1>1, <1>3, <2>1, <2>3, <2>4
<1>5. CASE WriterBecomes(w) /\ w.pending = writer.pending /\ UNCHANGED onDisk
  <2>1. writer' = w /\ disk' = disk /\ saved' = saved /\ over' = over
    BY <1>5 DEF WriterBecomes, onDisk
  <2> QED BY <1>1, <1>2, <1>3, <1>5, <2>1
      DEF QualityTypeOK, RunningInv, SavedInv, UnsavedPending
<1> QED BY <1>4, <1>5

LEMMA DrainedInv ==
    ASSUME QualityInv, Drained
    PROVE  QualityInv'
<1> DEFINE w == [writer EXCEPT !.at = "waiting"]
<1>1. QualityTypeOK /\ RunningInv /\ SavedInv /\ FlushKeeps /\ writer.at = "draining"
  BY DEF QualityInv, Drained, Ended
<1>2. w \in WriterType /\ w.at = "waiting" /\ w.store = writer.store
      /\ w.taken = writer.taken /\ w.pending = writer.pending
  BY <1>1 DEF QualityTypeOK, WriterType
<1>3. /\ SaveStore(w) \/ (WriterBecomes(w) /\ UNCHANGED onDisk)
      /\ UNCHANGED <<channel, flushing>> /\ UNCHANGED senders
  BY DEF Drained, SaveFailed
<1>4. flushing \in {"none", "asked", "abandoned", "kept", "failed"}
  BY <1>1 DEF QualityTypeOK
<1> HIDE DEF w
<1>5. /\ QualityTypeOK' /\ SavedInv' /\ saved <= saved'
      /\ writer'.at = "waiting" /\ writer'.taken = writer.taken
      /\ saved' <= writer'.taken
      /\ MadeOf(writer'.store, loaded', written', writer'.taken)
      /\ writer'.pending = 0 => saved' = writer'.taken
  BY <1>1, <1>2, <1>3, <1>4, StoreSteps
<1>6. PICK f \in Nat : Sent(f)
  BY <1>1 DEF RunningInv
<1>7. Sent(f)'
  <2>1. f # 0 => flushing' \in {"asked", "abandoned"} /\ writer'.at # "flushing"
    BY <1>3, <1>5, <1>6 DEF Sent
  <2> QED BY <1>3, <1>5, <1>6, <2>1, SentStays DEF senders
<1>8. RunningInv'
  BY <1>5, <1>7 DEF RunningInv
<1>9. FlushKeeps'
  <2>1. saved \in Nat /\ saved' \in Nat /\ mark \in Nat /\ mark' = mark
    BY <1>1, <1>3, <1>5 DEF QualityTypeOK, senders
  <2> QED BY <1>1, <1>3, <1>5, <2>1 DEF FlushKeeps
<1> QED BY <1>5, <1>8, <1>9 DEF QualityInv, Ended

LEMMA RetriedFacts ==
    ASSUME QualityAssumption, NEW w \in WriterType, NEW most, NEW end \in WriterType,
           most = FlushAttempts \/ most = LastAttempts,
           end.store = w.store, end.taken = w.taken, end.pending = w.pending
    PROVE  /\ Retried(w, most, end) \in WriterType
           /\ Retried(w, most, end).store = w.store
           /\ Retried(w, most, end).taken = w.taken
           /\ Retried(w, most, end).pending = w.pending
           /\ Retried(w, most, end) = end \/ Retried(w, most, end).at = w.at
<1>1. CASE w.tries + 1 < most
  <2>1. w.tries + 1 \in 0 .. (FlushAttempts + LastAttempts - 2)
    BY <1>1 DEF QualityAssumption, WriterType
  <2> QED BY <1>1, <2>1 DEF Retried, WriterType
<1>2. CASE ~(w.tries + 1 < most)
  BY <1>2 DEF Retried
<1> QED BY <1>1, <1>2

LEMMA FlushPendingInv ==
    ASSUME QualityInv, FlushPending
    PROVE  QualityInv'
<1> DEFINE end == [writer EXCEPT !.at = writer.back, !.tries = 0]
           again == Retried(writer, FlushAttempts, end)
<1>1. /\ QualityTypeOK /\ RunningInv /\ SavedInv /\ writer.at = "flushing"
      /\ UNCHANGED channel /\ UNCHANGED senders
  BY DEF QualityInv, FlushPending, Ended
<1>2. writer \in WriterType
  BY <1>1 DEF QualityTypeOK
<1>3. 0 \in 0 .. (FlushAttempts + LastAttempts - 2)
  BY QualityAssumption DEF QualityAssumption
<1>4. /\ end \in WriterType /\ end.at \in {"waiting", "draining"}
      /\ end.store = writer.store /\ end.taken = writer.taken
      /\ end.pending = writer.pending
  BY <1>2, <1>3 DEF WriterType
<1>5. \/ /\ NothingToSave /\ WriterBecomes(end) /\ FlushAnswers("kept")
         /\ UNCHANGED onDisk
      \/ SaveStore(end) /\ FlushAnswers("kept")
      \/ /\ SaveFailed(again)
         /\ IF again = end THEN FlushAnswers("failed") ELSE UNCHANGED flushing
  BY DEF FlushPending
<1> HIDE DEF end
<1>6. /\ again \in WriterType
      /\ again.store = writer.store /\ again.taken = writer.taken
      /\ again.pending = writer.pending
      /\ again = end \/ again.at = "flushing"
  BY <1>1, <1>2, <1>4, RetriedFacts, QualityAssumption
<1> HIDE DEF again
<1>7. /\ flushing \in {"asked", "abandoned"} /\ mark <= writer.taken
      /\ writer.pending = 0 => saved = writer.taken
  BY <1>1 DEF RunningInv
<1>8. Sent(0)
  BY <1>1 DEF RunningInv, Sent
<1>9. mark' = mark /\ written' = written
  BY <1>1 DEF senders
<1>10. ASSUME NEW w \in WriterType, w \in {end, again},
              \/ SaveStore(w)
              \/ WriterBecomes(w) /\ w.pending = writer.pending /\ UNCHANGED onDisk,
              flushing' \in {"none", "asked", "abandoned", "kept", "failed"},
              w.at = "flushing" => flushing' = flushing,
              FlushKeeps'
       PROVE  QualityInv'
  <2>1. w.store = writer.store /\ w.taken = writer.taken
    BY <1>4, <1>6, <1>10
  <2>2. w.at \in {"waiting", "draining", "flushing"}
    BY <1>4, <1>6, <1>10
  <2>3. /\ QualityTypeOK' /\ SavedInv'
        /\ writer'.at = w.at /\ writer'.taken = writer.taken
        /\ saved' <= writer'.taken
        /\ MadeOf(writer'.store, loaded', written', writer'.taken)
        /\ writer'.pending = 0 => saved' = writer'.taken
    BY <1>1, <1>10, <2>1, <2>2, StoreSteps
  <2>4. Sent(0)'
    BY <1>1, <1>8, <1>9, <2>3, SentStays
  <2>5. RunningInv'
    BY <1>7, <1>9, <1>10, <2>2, <2>3, <2>4 DEF RunningInv
  <2> QED BY <1>10, <2>2, <2>3, <2>5 DEF QualityInv, Ended
<1>11. CASE NothingToSave /\ WriterBecomes(end) /\ FlushAnswers("kept") /\ UNCHANGED onDisk
  <2>1. flushing' \in {"kept", "none"}
    BY <1>11 DEF FlushAnswers
  <2>2. saved' = writer.taken
    BY <1>7, <1>11 DEF NothingToSave, onDisk
  <2>3. FlushKeeps'
    BY <1>7, <1>9, <2>2 DEF FlushKeeps
  <2> QED BY <1>4, <1>10, <1>11, <2>1, <2>3
<1>12. CASE SaveStore(end) /\ FlushAnswers("kept")
  <2>1. flushing' \in {"kept", "none"}
    BY <1>12 DEF FlushAnswers
  <2>2. saved' = writer.taken
    BY <1>4, <1>12 DEF SaveStore
  <2>3. FlushKeeps'
    BY <1>7, <1>9, <2>2 DEF FlushKeeps
  <2> QED BY <1>4, <1>10, <1>12, <2>1, <2>3
<1>13. CASE /\ SaveFailed(again)
            /\ IF again = end THEN FlushAnswers("failed") ELSE UNCHANGED flushing
  <2>1. flushing' \in {"failed", "none", "asked", "abandoned"}
        /\ (again.at = "flushing" => flushing' = flushing)
    BY <1>4, <1>7, <1>13 DEF FlushAnswers
  <2>2. FlushKeeps'
    BY <2>1 DEF FlushKeeps
  <2> QED BY <1>6, <1>10, <1>13, <2>1, <2>2 DEF SaveFailed
<1> QED BY <1>5, <1>11, <1>12, <1>13

LEMMA DisconnectedInv ==
    ASSUME QualityInv, Disconnected
    PROVE  QualityInv'
<1> DEFINE w == [writer EXCEPT !.at = "closing"]
<1>1. /\ QualityTypeOK /\ RunningInv /\ SavedInv /\ FlushKeeps
      /\ writer.at = "waiting" /\ ~open /\ WriterBecomes(w)
      /\ UNCHANGED <<channel, flushing, onDisk>> /\ UNCHANGED senders
  BY DEF QualityInv, Disconnected, Ended
<1>2. w \in WriterType /\ w.at = "closing" /\ w.store = writer.store
      /\ w.taken = writer.taken /\ w.pending = writer.pending
  BY <1>1 DEF QualityTypeOK, WriterType
<1>3. flushing \in {"none", "asked", "abandoned", "kept", "failed"}
  BY <1>1 DEF QualityTypeOK
<1> HIDE DEF w
<1>4. /\ QualityTypeOK' /\ SavedInv'
      /\ writer'.at = "closing" /\ writer'.taken = writer.taken
      /\ saved' <= writer'.taken
      /\ MadeOf(writer'.store, loaded', written', writer'.taken)
      /\ writer'.pending = 0 => saved' = writer'.taken
  BY <1>1, <1>2, <1>3, StoreSteps
<1>5. PICK f \in Nat : Sent(f)
  BY <1>1 DEF RunningInv
<1>6. Sent(f)'
  <2>1. f # 0 => flushing' \in {"asked", "abandoned"} /\ writer'.at # "flushing"
    BY <1>1, <1>4, <1>5 DEF Sent
  <2> QED BY <1>1, <1>4, <1>5, <2>1, SentStays DEF senders
<1>7. RunningInv'
  BY <1>1, <1>4, <1>6 DEF RunningInv, senders
<1>8. FlushKeeps'
  BY <1>1 DEF FlushKeeps, senders, onDisk
<1> QED BY <1>4, <1>7, <1>8 DEF QualityInv, Ended

LEMMA LastSaveInv ==
    ASSUME QualityInv, LastSave
    PROVE  QualityInv'
<1> DEFINE end == [writer EXCEPT !.at = "ended", !.tries = 0]
           again == Retried(writer, LastAttempts, end)
<1>1. /\ QualityTypeOK /\ RunningInv /\ SavedInv /\ FlushKeeps /\ writer.at = "closing"
      /\ UNCHANGED <<channel, flushing>> /\ UNCHANGED senders
  BY DEF QualityInv, LastSave, Ended
<1>2. writer \in WriterType /\ ~open
  BY <1>1 DEF QualityTypeOK, RunningInv
<1>3. 0 \in 0 .. (FlushAttempts + LastAttempts - 2)
  BY QualityAssumption DEF QualityAssumption
<1>4. /\ end \in WriterType /\ end.at = "ended"
      /\ end.store = writer.store /\ end.taken = writer.taken
      /\ end.pending = writer.pending
  BY <1>2, <1>3 DEF WriterType
<1>5. \/ WriterBecomes(end) /\ UNCHANGED onDisk
      \/ SaveStore(end)
      \/ SaveFailed(again)
  BY DEF LastSave
<1> HIDE DEF end
<1>6. /\ again \in WriterType
      /\ again.store = writer.store /\ again.taken = writer.taken
      /\ again.pending = writer.pending
      /\ again = end \/ again.at = "closing"
  BY <1>1, <1>2, <1>4, RetriedFacts, QualityAssumption
<1> HIDE DEF again
<1>7. PICK w \in {end, again} :
         \/ SaveStore(w)
         \/ WriterBecomes(w) /\ w.pending = writer.pending /\ UNCHANGED onDisk
  BY <1>4, <1>5, <1>6 DEF SaveFailed
<1>8. /\ w \in WriterType /\ w.at \in {"ended", "closing"}
      /\ w.store = writer.store /\ w.taken = writer.taken
  BY <1>4, <1>6
<1>9. flushing' \in {"none", "asked", "abandoned", "kept", "failed"}
  BY <1>1 DEF QualityTypeOK
<1>10. /\ QualityTypeOK' /\ SavedInv' /\ saved <= saved'
       /\ writer'.at = w.at /\ writer'.taken = writer.taken
       /\ saved' <= writer'.taken
       /\ MadeOf(writer'.store, loaded', written', writer'.taken)
       /\ writer'.pending = 0 => saved' = writer'.taken
  BY <1>1, <1>7, <1>8, <1>9, StoreSteps
<1>11. PICK f \in Nat : Sent(f)
  BY <1>1 DEF RunningInv
<1>12. Sent(f)'
  <2>1. f # 0 => flushing' \in {"asked", "abandoned"} /\ writer'.at # "flushing"
    BY <1>1, <1>8, <1>10, <1>11 DEF Sent
  <2> QED BY <1>1, <1>10, <1>11, <2>1, SentStays DEF senders
<1>13. RunningInv' /\ ~open'
  <2>1. ~open'
    BY <1>1, <1>2 DEF senders
  <2> QED BY <1>8, <1>10, <1>12, <2>1 DEF RunningInv
<1>14. FlushKeeps'
  <2>1. saved \in Nat /\ saved' \in Nat /\ mark \in Nat /\ mark' = mark
    BY <1>1, <1>10 DEF QualityTypeOK, senders
  <2> QED BY <1>1, <1>10, <2>1 DEF FlushKeeps
<1> QED BY <1>8, <1>10, <1>13, <1>14 DEF QualityInv, Ended

LEMMA TakeCommandInv ==
    ASSUME QualityInv, TakeCommand
    PROVE  QualityInv'
<1> DEFINE command == Head(channel)
<1>1. /\ QualityTypeOK /\ RunningInv /\ SavedInv /\ FlushKeeps
      /\ writer.at \in {"waiting", "draining"} /\ channel # <<>>
      /\ writer' = Received(writer, command) /\ channel' = Tail(channel)
      /\ UNCHANGED <<disk, flushing, older, saved, over, quality, open, written, loaded,
                     mark>>
  BY DEF QualityInv, TakeCommand, WriterBecomes, senders, onDisk, Ended
<1>2. /\ writer \in WriterType /\ writer.taken \in Nat /\ writer.pending \in Nat
      /\ saved \in Nat /\ written \in Seq(QualityWrite) /\ channel \in Seq(QualityCommand)
  BY <1>1 DEF QualityTypeOK, WriterType
<1>3. /\ Len(channel) \in Nat \ {0} /\ channel' \in Seq(QualityCommand)
      /\ Len(channel') = Len(channel) - 1 /\ command = channel[1]
      /\ \A i \in 1 .. Len(channel') : channel'[i] = channel[i + 1]
  BY <1>1, <1>2
<1> HIDE DEF command
<1>4. PICK f \in Nat : Sent(f)
  BY <1>1 DEF RunningInv
<1>5. CASE f = 1
  <2>1. command.kind = "flush" /\ mark = writer.taken /\ flushing \in {"asked", "abandoned"}
    BY <1>2, <1>3, <1>4, <1>5 DEF Sent
  <2>2. writer' = [writer EXCEPT !.at = "flushing", !.back = writer.at]
    BY <1>1, <2>1 DEF Received
  <2>3. /\ writer' \in WriterType /\ writer'.at = "flushing"
        /\ writer'.store = writer.store /\ writer'.taken = writer.taken
        /\ writer'.pending = writer.pending
    BY <1>1, <1>2, <2>2 DEF WriterType
  <2>4. ASSUME NEW i \in 1 .. Len(channel')
        PROVE  /\ channel'[i].kind = "write"
               /\ channel'[i].write = written[writer.taken + i - Behind(0, i)]
    <3>1. i + 1 \in 1 .. Len(channel) /\ i + 1 # f /\ Behind(f, i + 1) = 1 /\ Behind(0, i) = 0
      BY <1>3, <1>5, <2>4 DEF Behind
    <3>2. /\ channel[i + 1].kind = "write"
          /\ channel[i + 1].write = written[writer.taken + (i + 1) - 1]
      BY <1>4, <3>1 DEF Sent
    <3>3. writer.taken + (i + 1) - 1 = writer.taken + i - 0
      BY <1>2, <2>4
    <3> QED BY <1>3, <2>4, <3>1, <3>2, <3>3
  <2>5. Sent(0)'
    <3>1. Len(written) = writer.taken + Len(channel) - 1
      BY <1>4, <1>5 DEF Sent
    <3>2. 0 \in 0 .. Len(channel') /\ Len(written) = writer.taken + Len(channel') - 0
      BY <1>2, <1>3, <3>1
    <3> QED BY <1>1, <2>3, <2>4, <3>2 DEF Sent, Behind
  <2>6. RunningInv'
    BY <1>1, <1>2, <2>1, <2>3, <2>5 DEF RunningInv
  <2>7. QualityTypeOK'
    BY <1>1, <1>3, <2>3 DEF QualityTypeOK
  <2>8. SavedInv'
    BY <1>1, <2>3 DEF SavedInv, UnsavedPending
  <2>9. FlushKeeps'
    BY <1>1 DEF FlushKeeps
  <2> QED BY <2>3, <2>6, <2>7, <2>8, <2>9 DEF QualityInv, Ended
<1>6. CASE f # 1
  <2>1. PICK g \in Nat : (f = 0 => g = 0) /\ (f # 0 => g = f - 1)
    OBVIOUS
  <2>2. (g = 0 <=> f = 0) /\ (f # 0 => f = g + 1)
    BY <1>6, <2>1
  <2>3. Behind(f, 1) = 0
    BY <1>6 DEF Behind
  <2>4. command.kind = "write" /\ command.write = written[writer.taken + 1]
    <3>1. 1 \in 1 .. Len(channel) /\ writer.taken + 1 - 0 = writer.taken + 1
      BY <1>2, <1>3
    <3>2. /\ channel[1].kind = "write"
          /\ channel[1].write = written[writer.taken + 1 - Behind(f, 1)]
      BY <1>4, <1>6, <3>1 DEF Sent
    <3> QED BY <1>3, <2>3, <3>1, <3>2
  <2>5. writer.taken + 1 \in 1 .. Len(written)
    <3>1. /\ f \in 0 .. Len(channel)
          /\ Len(written) = writer.taken + Len(channel) - (IF f = 0 THEN 0 ELSE 1)
      BY <1>4 DEF Sent
    <3> QED BY <1>2, <1>3, <1>6, <3>1
  <2>6. command.write \in QualityWrite
    BY <1>2, <2>4, <2>5
  <2>7. writer' = [writer EXCEPT !.at = "draining", !.pending = writer.pending + 1,
                                 !.taken = writer.taken + 1,
                                 !.store[command.write.key] = command.write.value]
    BY <1>1, <2>4 DEF Received
  <2>8. /\ writer' \in WriterType /\ writer'.at = "draining"
        /\ writer'.store = [writer.store EXCEPT ![command.write.key] = command.write.value]
        /\ writer'.taken = writer.taken + 1 /\ writer'.pending = writer.pending + 1
    <3>1. writer.store \in Qualities
      BY <1>2 DEF WriterType
    <3>2. [writer.store EXCEPT ![command.write.key] = command.write.value] \in Qualities
      BY <2>6, <3>1 DEF Qualities, QualityWrite
    <3>3. PICK st \in Qualities : st = [writer.store EXCEPT ![command.write.key] = command.write.value]
      BY <3>2
    <3>4. writer' = [writer EXCEPT !.at = "draining", !.pending = writer.pending + 1,
                                   !.taken = writer.taken + 1, !.store = st]
      BY <1>2, <2>7, <3>3 DEF WriterType
    <3>5. writer.taken + 1 \in Nat /\ writer.pending + 1 \in Nat /\ writer \in WriterType
      BY <1>2
    <3>6. writer' \in WriterType
      BY <3>4, <3>5 DEF WriterType
    <3>7. /\ writer'.at = "draining" /\ writer'.store = st
          /\ writer'.taken = writer.taken + 1 /\ writer'.pending = writer.pending + 1
      BY <3>4, <3>5 DEF WriterType
    <3> QED BY <3>3, <3>6, <3>7
  <2>9. ASSUME NEW i \in 1 .. Len(channel'), i # g
        PROVE  /\ channel'[i].kind = "write"
               /\ channel'[i].write = written[writer.taken + 1 + i - Behind(g, i)]
    <3>1. i + 1 \in 1 .. Len(channel) /\ i + 1 # f /\ Behind(f, i + 1) = Behind(g, i)
      BY <1>3, <1>6, <2>2, <2>9 DEF Behind
    <3>2. /\ channel[i + 1].kind = "write"
          /\ channel[i + 1].write = written[writer.taken + (i + 1) - Behind(f, i + 1)]
      BY <1>4, <3>1 DEF Sent
    <3>3. writer.taken + (i + 1) - Behind(g, i) = writer.taken + 1 + i - Behind(g, i)
      <4>1. Behind(g, i) \in Int /\ i \in Int /\ writer.taken \in Int
        BY <1>2, <1>3, <2>9 DEF Behind
      <4> QED BY <4>1
    <3> QED BY <1>3, <2>9, <3>1, <3>2, <3>3
  <2>10. f # 0 => /\ channel'[g].kind = "flush"
                 /\ mark = writer.taken + 1 + g - 1
                 /\ flushing \in {"asked", "abandoned"}
    <3>1. f # 0 => f \in 2 .. Len(channel) /\ f = g + 1 /\ g \in 1 .. Len(channel')
      BY <1>3, <1>4, <1>6, <2>2 DEF Sent
    <3>2. f # 0 => channel'[g] = channel[f]
      BY <1>3, <3>1
    <3>3. f # 0 => channel[f].kind = "flush" /\ mark = writer.taken + f - 1
                   /\ flushing \in {"asked", "abandoned"}
      BY <1>4 DEF Sent
    <3> QED BY <1>2, <3>1, <3>2, <3>3
  <2>11. /\ g \in 0 .. Len(channel')
         /\ Len(written) = writer.taken + 1 + Len(channel') - (IF g = 0 THEN 0 ELSE 1)
    <3>1. /\ f \in 0 .. Len(channel)
          /\ Len(written) = writer.taken + Len(channel) - (IF f = 0 THEN 0 ELSE 1)
      BY <1>4 DEF Sent
    <3>2. Len(channel') \in Nat /\ Len(channel) = Len(channel') + 1 /\ writer.taken \in Nat
      BY <1>2, <1>3
    <3>3. CASE f = 0
      BY <2>2, <3>1, <3>2, <3>3
    <3>4. CASE f # 0
      BY <1>6, <2>2, <3>1, <3>2, <3>4
    <3> QED BY <3>3, <3>4
  <2>12. Sent(g)'
    <3>1. /\ g \in 0 .. Len(channel')
          /\ Len(written') = writer'.taken + Len(channel') - (IF g = 0 THEN 0 ELSE 1)
      BY <1>1, <2>8, <2>11
    <3>2. \A i \in 1 .. Len(channel') : i # g =>
            /\ channel'[i].kind = "write"
            /\ channel'[i].write = written'[writer'.taken + i - Behind(g, i)]
      BY <1>1, <2>8, <2>9
    <3>3. g # 0 => /\ channel'[g].kind = "flush"
                   /\ mark' = writer'.taken + g - 1
                   /\ flushing' \in {"asked", "abandoned"} /\ writer'.at # "flushing"
      BY <1>1, <2>2, <2>8, <2>10
    <3> QED BY <3>1, <3>2, <3>3 DEF Sent, Behind
  <2>13. MadeOf(writer'.store, loaded', written', writer'.taken)
    <3>1. MadeOf(writer.store, loaded, written, writer.taken)
          /\ written[writer.taken + 1] \in QualityWrite
      BY <1>1, <2>4, <2>6 DEF RunningInv
    <3>2. MadeOf([writer.store EXCEPT ![written[writer.taken + 1].key] =
                                        written[writer.taken + 1].value],
                 loaded, written, writer.taken + 1)
      BY <1>2, <3>1, MadeOfNext
    <3>3. MadeOf(writer'.store, loaded, written, writer'.taken)
      BY <2>4, <2>8, <3>2
    <3> QED BY <1>1, <3>3
  <2>14. RunningInv'
    <3>1. saved' <= writer'.taken /\ writer'.pending # 0
      BY <1>1, <1>2, <2>8 DEF RunningInv
    <3> QED BY <1>1, <2>8, <2>12, <2>13, <3>1 DEF RunningInv
  <2>15. QualityTypeOK'
    BY <1>1, <1>3, <2>8 DEF QualityTypeOK
  <2>16. SavedInv'
    <3>1. writer'.pending # 0
      BY <1>2, <2>8
    <3> QED BY <1>1, <3>1 DEF SavedInv, UnsavedPending
  <2>17. FlushKeeps'
    BY <1>1 DEF FlushKeeps
  <2> QED BY <2>8, <2>14, <2>15, <2>16, <2>17 DEF QualityInv, Ended
<1> QED BY <1>5, <1>6

(***************************************************************************)
(* The program dies and comes back.                                        *)
(***************************************************************************)
LEMMA ProgramDiesInv ==
    ASSUME QualityInv, ProgramDies
    PROVE  QualityInv'
<1>1. /\ QualityTypeOK /\ SavedInv
      /\ writer' = Nowhere /\ older' = OnlyOne
      /\ channel' = <<>> /\ open' = FALSE /\ flushing' = "none"
      /\ UNCHANGED <<quality, disk, written, saved, over, loaded, mark>>
  BY DEF QualityInv, ProgramDies, qualityHistory
<1>2. /\ writer' \in WriterType /\ writer'.at = "killed"
      /\ older' \in [1 .. MaxOlder -> Server]
  BY <1>1, NowhereFacts, NoServerFacts, QualityAssumption
<1>3. QualityTypeOK'
  <2>1. <<>> \in Seq(QualityCommand)
    OBVIOUS
  <2>2. channel' \in Seq(QualityCommand) /\ open' \in BOOLEAN /\ flushing' = "none"
    BY <1>1, <2>1
  <2> QED BY <1>1, <1>2, <2>2 DEF QualityTypeOK
<1>4. SavedInv'
  BY <1>1, <1>2 DEF SavedInv, UnsavedPending
<1> QED BY <1>1, <1>2, <1>3, <1>4 DEF QualityInv, FlushKeeps, Ended

LEMMA StartServerInv ==
    ASSUME QualityInv, StartServer
    PROVE  QualityInv'
<1>1. QualityTypeOK
  BY DEF QualityInv
<1>2. /\ quality' = disk /\ loaded' = disk /\ disk' = disk
      /\ writer' = Starting
      /\ channel' = <<>> /\ open' = TRUE /\ flushing' = "none"
      /\ written' = <<>> /\ saved' = 0 /\ over' = FALSE /\ mark' = 0
  BY DEF StartServer
<1>3. older' \in [1 .. MaxOlder -> Server]
  <2>1. ThisServer \in Server /\ older \in [1 .. MaxOlder -> Server]
    BY <1>1 DEF QualityTypeOK, ThisServer, Server
  <2> HIDE DEF ThisServer
  <2> QED BY <2>1 DEF StartServer, OlderBecomes
<1>4. Starting \in WriterType /\ Starting.at = "loading"
      /\ Starting.pending = 0 /\ Starting.taken = 0
  BY NowhereFacts, QualityAssumption
<1>5. QualityTypeOK'
  <2>1. <<>> \in Seq(QualityCommand) /\ <<>> \in Seq(QualityWrite)
    OBVIOUS
  <2>2. channel' \in Seq(QualityCommand) /\ written' \in Seq(QualityWrite)
    BY <1>2, <2>1
  <2> QED BY <1>1, <1>2, <1>3, <1>4, <2>2 DEF QualityTypeOK
<1>6. Sent(0)'
  BY <1>2, <1>4 DEF Sent
<1>7. RunningInv'
  BY <1>2, <1>4, <1>6 DEF RunningInv, NotLoaded
<1>8. SavedInv'
  BY <1>2, <1>4 DEF SavedInv, UnsavedPending
<1> QED BY <1>2, <1>4, <1>5, <1>7, <1>8 DEF QualityInv, FlushKeeps, Ended

LEMMA LoadInv ==
    ASSUME QualityInv, Load
    PROVE  QualityInv'
<1>1. /\ QualityTypeOK /\ RunningInv /\ SavedInv /\ FlushKeeps
      /\ writer.at = "loading" /\ writer' = LoadedFrom(disk)
      /\ UNCHANGED <<channel, flushing, disk, saved, over, quality, open, older, written,
                     loaded, mark>>
  BY DEF QualityInv, Load, WriterBecomes, senders, onDisk, Ended
<1>2. NotLoaded /\ disk \in Qualities
  BY <1>1 DEF RunningInv, QualityTypeOK
<1>3. /\ writer' \in WriterType /\ writer'.at = "waiting" /\ writer'.store = disk
      /\ writer'.pending = 0 /\ writer'.taken = 0
  BY <1>1, <1>2, LoadedFacts, QualityAssumption
<1>4. QualityTypeOK'
  BY <1>1, <1>3 DEF QualityTypeOK
<1>5. PICK f \in Nat : Sent(f)
  BY <1>1 DEF RunningInv
<1>6. Sent(f)'
  <2>1. f # 0 => flushing' \in {"asked", "abandoned"} /\ writer'.at # "flushing"
    BY <1>1, <1>3, <1>5 DEF Sent
  <2> QED BY <1>1, <1>2, <1>3, <1>5, <2>1, SentStays DEF NotLoaded
<1>7. MadeOf(writer'.store, loaded', written', writer'.taken)
  BY <1>1, <1>2, <1>3, MadeOfNone DEF NotLoaded
<1>8. RunningInv'
  BY <1>1, <1>2, <1>3, <1>6, <1>7 DEF RunningInv, NotLoaded
<1>9. SavedInv'
  BY <1>1, <1>2, <1>3 DEF SavedInv, UnsavedPending, NotLoaded
<1> QED BY <1>1, <1>3, <1>4, <1>8, <1>9 DEF QualityInv, FlushKeeps, Ended

(***************************************************************************)
(* The older servers.                                                      *)
(***************************************************************************)
LEMMA ReceivedType ==
    ASSUME NEW w \in WriterType, w.at \in {"waiting", "draining"},
           NEW command \in QualityCommand
    PROVE  Received(w, command) \in WriterType
<1>1. CASE command.kind = "flush"
  BY <1>1 DEF Received, WriterType
<1>2. CASE command.kind # "flush"
  <2>1. command.write \in QualityWrite
    BY <1>2 DEF QualityCommand
  <2>2. PICK st : st = [w.store EXCEPT ![command.write.key] = command.write.value]
    OBVIOUS
  <2>3. st \in Qualities
    BY <2>1, <2>2 DEF Qualities, QualityWrite, WriterType
  <2>4. Received(w, command) =
          [w EXCEPT !.at = "draining", !.pending = w.pending + 1, !.taken = w.taken + 1,
                    !.store = st]
    BY <1>2, <2>2 DEF Received
  <2>5. PICK n, m : n = w.pending + 1 /\ m = w.taken + 1
    OBVIOUS
  <2>6. n \in Nat /\ m \in Nat
    BY <2>5 DEF WriterType
  <2>7. Received(w, command) =
          [w EXCEPT !.at = "draining", !.pending = n, !.taken = m, !.store = st]
    BY <2>4, <2>5
  <2> QED BY <2>3, <2>6, <2>7 DEF WriterType
<1> QED BY <1>1, <1>2

LEMMA RestingType ==
    ASSUME NEW w \in WriterType
    PROVE  /\ Resting(w) \in WriterType
           /\ [Resting(w) EXCEPT !.pending = 0] \in WriterType
<1>1. 0 \in 0 .. (FlushAttempts + LastAttempts - 2)
  BY QualityAssumption DEF QualityAssumption
<1>2. Resting(w) \in WriterType
  BY <1>1 DEF Resting, WriterType
<1> QED BY <1>2 DEF WriterType

(* An older server stays one, and the file changes only under a save over  *)
(* what the newest server has.                                             *)
LEMMA OlderFacts ==
    ASSUME QualityTypeOK, OlderStep
    PROVE  /\ older' \in [1 .. MaxOlder -> Server]
           /\ \/ UNCHANGED onDisk /\ loaded' = loaded
              \/ \E store \in Qualities : SavedOver(store)
<1>1. PICK i \in 1 .. MaxOlder :
         /\ ~Ended(older[i].writer)
         /\ \/ \E k \in QualityKey : OlderPersists(i, k)
            \/ OlderCloses(i) \/ OlderTakes(i)
            \/ OlderSaves(i) \/ OlderGoesOn(i) \/ OlderEnds(i)
  BY DEF OlderStep
<1>2. older \in [1 .. MaxOlder -> Server] /\ disk \in Qualities
  BY DEF QualityTypeOK
<1>3. PICK s \in Server : s = older[i]
  BY <1>1, <1>2
<1>4. /\ s.quality \in Qualities /\ s.channel \in Seq(QualityCommand)
      /\ s.open \in BOOLEAN /\ s.writer \in WriterType /\ s.writer.store \in Qualities
  BY DEF Server, WriterType
<1>5. ASSUME NEW t \in Server, OlderBecomes(i, t)
      PROVE  older' \in [1 .. MaxOlder -> Server]
  BY <1>2, <1>5 DEF OlderBecomes
<1>6. CASE \E k \in QualityKey : OlderPersists(i, k)
  <2>1. PICK k \in QualityKey : OlderPersists(i, k)
    BY <1>6
  <2>2. PICK w : w = [key |-> k, value |-> s.quality[k] + 1]
    OBVIOUS
  <2>3. s.quality[k] \in 0 .. MaxQuality /\ s.quality[k] < MaxQuality
    BY <1>3, <1>4, <2>1 DEF OlderPersists, Qualities
  <2>4. w \in QualityWrite /\ w.value \in 0 .. MaxQuality
    BY <2>2, <2>3, QualityAssumption DEF QualityWrite, QualityAssumption
  <2>5. PICK q \in Qualities : q = [s.quality EXCEPT ![k] = w.value]
    BY <1>4, <2>4 DEF Qualities
  <2>6. [kind |-> "write", write |-> w] \in QualityCommand
    BY <2>4 DEF QualityCommand
  <2>7. PICK c \in Seq(QualityCommand) :
           c = Append(s.channel, [kind |-> "write", write |-> w])
    <3>1. ASSUME NEW x \in QualityCommand
          PROVE  Append(s.channel, x) \in Seq(QualityCommand)
      BY <1>4
    <3> QED BY <2>6, <3>1
  <2>8. OlderBecomes(i, [s EXCEPT !.quality = q, !.channel = c])
    BY <1>3, <2>1, <2>2, <2>5, <2>7 DEF OlderPersists
  <2>9. [s EXCEPT !.quality = q, !.channel = c] \in Server
    BY <1>4 DEF Server
  <2> QED BY <1>5, <2>1, <2>8, <2>9 DEF OlderPersists
<1>7. CASE OlderCloses(i)
  <2>1. [s EXCEPT !.open = FALSE] \in Server
    BY <1>4 DEF Server
  <2> QED BY <1>3, <1>5, <1>7, <2>1 DEF OlderCloses
<1>8. CASE OlderTakes(i)
  <2>1. CASE /\ s.writer.at = "loading"
             /\ OlderBecomes(i, [s EXCEPT !.writer = LoadedFrom(disk)])
    <3>1. [s EXCEPT !.writer = LoadedFrom(disk)] \in Server
      BY <1>2, <1>4, LoadedFacts, QualityAssumption DEF Server
    <3> QED BY <1>5, <1>8, <2>1, <3>1 DEF OlderTakes
  <2>2. CASE /\ s.writer.at \in {"waiting", "draining"} /\ s.channel # <<>>
             /\ OlderBecomes(i, [s EXCEPT !.writer = Received(s.writer, Head(s.channel)),
                                          !.channel = Tail(s.channel)])
    <3>1. Head(s.channel) \in QualityCommand /\ Tail(s.channel) \in Seq(QualityCommand)
      BY <1>4, <2>2
    <3>2. Received(s.writer, Head(s.channel)) \in WriterType
      BY <1>4, <2>2, <3>1, ReceivedType
    <3>3. [s EXCEPT !.writer = Received(s.writer, Head(s.channel)),
                    !.channel = Tail(s.channel)] \in Server
      BY <1>4, <3>1, <3>2 DEF Server
    <3> QED BY <1>5, <1>8, <2>2, <3>3 DEF OlderTakes
  <2> QED BY <1>3, <1>8, <2>1, <2>2 DEF OlderTakes
<1>9. CASE OlderSaves(i)
  <2>1. PICK w \in WriterType : w = [Resting(s.writer) EXCEPT !.pending = 0]
    BY <1>4, RestingType
  <2>2. OlderBecomes(i, [s EXCEPT !.writer = w])
    BY <1>3, <1>9, <2>1 DEF OlderSaves
  <2>3. [s EXCEPT !.writer = w] \in Server
    BY DEF Server
  <2> QED BY <1>3, <1>4, <1>5, <1>9, <2>2, <2>3 DEF OlderSaves
<1>10. CASE OlderGoesOn(i)
  <2>1. PICK w \in WriterType : w = Resting(s.writer)
    BY <1>4, RestingType
  <2>2. OlderBecomes(i, [s EXCEPT !.writer = w])
    BY <1>3, <1>10, <2>1 DEF OlderGoesOn
  <2>3. [s EXCEPT !.writer = w] \in Server
    BY DEF Server
  <2> QED BY <1>5, <1>10, <2>2, <2>3 DEF OlderGoesOn
<1>11. CASE OlderEnds(i)
  BY <1>3, <1>4, <1>5, <1>11, NoServerFacts DEF OlderEnds
<1> QED BY <1>1, <1>6, <1>7, <1>8, <1>9, <1>10, <1>11

LEMMA OlderStepInv ==
    ASSUME QualityInv, OlderStep
    PROVE  QualityInv'
<1>1. QualityTypeOK /\ SavedInv
  BY DEF QualityInv
<1>2. UNCHANGED <<quality, channel, open, writer, flushing, written, mark>>
  BY DEF OlderStep
<1>3. older' \in [1 .. MaxOlder -> Server]
      /\ ((UNCHANGED onDisk /\ loaded' = loaded) \/ \E store \in Qualities : SavedOver(store))
  BY <1>1, OlderFacts
<1>4. ASSUME NEW f \in Nat, Sent(f)
      PROVE  Sent(f)'
  BY <1>2, <1>4 DEF Sent, Behind
<1>5. CASE UNCHANGED onDisk /\ loaded' = loaded
  <2>1. UNCHANGED <<disk, saved, over, loaded>>
    BY <1>5 DEF onDisk
  <2>2. QualityTypeOK'
    BY <1>1, <1>2, <1>3, <2>1 DEF QualityTypeOK
  <2>3. RunningInv => RunningInv'
    BY <1>2, <1>4, <2>1 DEF RunningInv, NotLoaded
  <2>4. SavedInv'
    BY <1>1, <1>2, <2>1 DEF SavedInv, UnsavedPending
  <2> QED BY <1>2, <2>1, <2>2, <2>3, <2>4 DEF QualityInv, FlushKeeps, Ended
<1>6. CASE \E store \in Qualities : SavedOver(store)
  <2>1. PICK store \in Qualities : SavedOver(store)
    BY <1>6
  <2>2. /\ disk' = store /\ saved' = saved
        /\ over' = (writer.at # "loading")
        /\ loaded' = IF writer.at = "loading" THEN store ELSE loaded
    BY <2>1 DEF SavedOver
  <2>3. QualityTypeOK'
    BY <1>1, <1>2, <1>3, <2>2 DEF QualityTypeOK
  <2>4. RunningInv => RunningInv'
    <3>1. CASE writer.at = "loading"
      BY <1>2, <1>4, <2>2, <3>1 DEF RunningInv, NotLoaded
    <3>2. CASE writer.at # "loading"
      BY <1>2, <1>4, <2>2, <3>2 DEF RunningInv
    <3> QED BY <3>1, <3>2
  <2>5. SavedInv'
    BY <1>1, <1>2, <2>2 DEF SavedInv, UnsavedPending
  <2> QED BY <1>2, <2>2, <2>3, <2>4, <2>5 DEF QualityInv, FlushKeeps, Ended
<1> QED BY <1>3, <1>5, <1>6

LEMMA QualityStepInv == QualityInv /\ [QualityNext]_qualityVars => QualityInv'
<1> SUFFICES ASSUME QualityInv, [QualityNext]_qualityVars
             PROVE  QualityInv'
  OBVIOUS
<1>1. CASE \E k \in QualityKey : Persist(k)
  BY <1>1, PersistInv
<1>2. CASE AskFlush
  BY <1>2, AskFlushInv
<1>3. CASE FlushTimeout
  BY <1>3, FlushTimeoutInv
<1>4. CASE Close
  BY <1>4, CloseInv
<1>5. CASE TakeCommand
  BY <1>5, TakeCommandInv
<1>6. CASE Drained
  BY <1>6, DrainedInv
<1>7. CASE FlushPending
  BY <1>7, FlushPendingInv
<1>8. CASE Disconnected
  BY <1>8, DisconnectedInv
<1>9. CASE LastSave
  BY <1>9, LastSaveInv
<1>10. CASE ProgramDies
  BY <1>10, ProgramDiesInv
<1>11. CASE StartServer
  BY <1>11, StartServerInv
<1>12. CASE Load
  BY <1>12, LoadInv
<1>13. CASE OlderStep
  BY <1>13, OlderStepInv
<1>14. CASE UNCHANGED qualityVars
  BY <1>14 DEF qualityVars, QualityInv, QualityTypeOK, RunningInv, NotLoaded, Sent, Behind,
               SavedInv, UnsavedPending, FlushKeeps, Ended
<1> QED BY <1>1, <1>2, <1>3, <1>4, <1>5, <1>6, <1>7, <1>8, <1>9, <1>10, <1>11, <1>12,
           <1>13, <1>14
        DEF QualityNext, WriterStep

LEMMA QualityInvariance == QualitySpec => []QualityInv
<1> QED BY QualityInitInv, QualityStepInv, PTL DEF QualitySpec

(***************************************************************************)
(* The theorems.                                                           *)
(***************************************************************************)
(* Every variable of the writer keeps its type, for all keys and limits.   *)
THEOREM QualityTypeCorrect == QualitySpec => []QualityTypeOK
<1>1. QualityInv => QualityTypeOK
  BY DEF QualityInv
<1> QED BY <1>1, QualityInvariance, PTL

(* What the store holds and the file does not is pending, so that the next *)
(* save is not skipped (flush_quality_pending); only the save of an older  *)
(* server's writer over the file is not noticed.                           *)
THEOREM UnsavedAlwaysPending == QualitySpec => []UnsavedPending
<1>1. QualityInv => UnsavedPending
  BY DEF QualityInv, SavedInv
<1> QED BY <1>1, QualityInvariance, PTL

(* A flush that is answered after its saves did not all fail has brought   *)
(* every write sent before it into the file (flush_with_timeout).          *)
THEOREM FlushAlwaysKeeps == QualitySpec => []FlushKeeps
<1>1. QualityInv => FlushKeeps
  BY DEF QualityInv
<1> QED BY <1>1, QualityInvariance, PTL

(***************************************************************************)
(* The writer implements a lagging store.                                  *)
(***************************************************************************)
LEMMA LagsInit == QualityInit => Store!StoreInit
<1> SUFFICES ASSUME QualityInit PROVE Store!StoreInit
  OBVIOUS
<1>1. loaded \in Qualities
  BY QualityAssumption DEF QualityInit, Qualities, QualityAssumption
<1>2. ~OlderLives
  BY NoServerFacts DEF QualityInit, OlderLives
<1> QED BY <1>1, <1>2 DEF QualityInit, Store!StoreInit, Qualities

LEMMA SaveIsSave ==
    ASSUME QualityInv, ~Ended(writer), writer.at # "loading", NEW w,
           w.store = writer.store, w.taken = writer.taken, SaveStore(w),
           UNCHANGED <<loaded, written, older>>
    PROVE  Store!Save
<1>1. QualityTypeOK /\ RunningInv
  BY DEF QualityInv
<1>2. disk' = writer.store /\ saved' = writer.taken
  BY DEF SaveStore
<1>3. MadeOf(writer.store, loaded, written, writer.taken) /\ saved <= writer.taken
  BY <1>1 DEF RunningInv
<1>4. Store!Holds(writer.store, writer.taken)
  BY <1>3, MadeOfIsHolds
<1>5. writer.taken <= Len(written) /\ writer.taken \in Nat /\ saved \in Nat
  <2>1. PICK f \in Nat : Sent(f)
    BY <1>1 DEF RunningInv
  <2> QED BY <1>1, <2>1 DEF Sent, QualityTypeOK, WriterType
<1>6. saved' \in saved .. Len(written)
  BY <1>1, <1>2, <1>3, <1>5 DEF QualityTypeOK
<1> QED BY <1>2, <1>4, <1>6 DEF Store!Save, Store!Holds, Store!Written, OlderLives

LEMMA LagsStep ==
    QualityInv /\ [QualityNext]_qualityVars => [Store!StoreNext]_(Store!storeVars)
<1> SUFFICES ASSUME QualityInv, [QualityNext]_qualityVars
             PROVE  Store!StoreNext \/ UNCHANGED Store!storeVars
  OBVIOUS
<1>1. ASSUME NEW k \in QualityKey, Persist(k)
      PROVE  Store!AddRecord
  <2>1. quality[k] \in 0 .. MaxQuality /\ quality[k] < MaxQuality
    BY <1>1 DEF QualityInv, QualityTypeOK, Qualities, Persist
  <2>2. quality'[k] = quality[k] + 1
    BY <1>1 DEF QualityInv, QualityTypeOK, Qualities, Persist
  <2>3. quality'[k] \in 0 .. MaxQuality
    BY <2>1, <2>2, QualityAssumption DEF QualityAssumption
  <2>4. written' = Append(written, [key |-> k, value |-> quality'[k]])
        /\ UNCHANGED <<loaded, saved, disk, older>>
    BY <1>1 DEF Persist
  <2> QED BY <2>3, <2>4 DEF Store!AddRecord, OlderLives
<1>2. CASE AskFlush \/ FlushTimeout \/ Close \/ Load \/ TakeCommand \/ Disconnected
  BY <1>2 DEF AskFlush, FlushTimeout, Close, Load, TakeCommand, Disconnected,
              qualityHistory, senders, onDisk, OlderLives, Store!storeVars
<1>3. ASSUME NEW w \in WriterType, w.store = writer.store, w.taken = writer.taken,
             ~Ended(writer), writer.at # "loading", UNCHANGED senders,
             SaveStore(w) \/ UNCHANGED onDisk
      PROVE  Store!Save \/ UNCHANGED Store!storeVars
  BY <1>3, SaveIsSave DEF senders, onDisk, OlderLives, Store!storeVars
<1>4. writer \in WriterType
  BY DEF QualityInv, QualityTypeOK
<1>5. CASE Drained
  <2>1. PICK w : w = [writer EXCEPT !.at = "waiting"]
    OBVIOUS
  <2>2. w \in WriterType /\ w.store = writer.store /\ w.taken = writer.taken
    BY <1>4, <2>1 DEF WriterType
  <2>3. /\ ~Ended(writer) /\ writer.at # "loading" /\ UNCHANGED senders
        /\ SaveStore(w) \/ UNCHANGED onDisk
    BY <1>5, <2>1 DEF Drained, SaveFailed, Ended
  <2> QED BY <1>3, <2>2, <2>3 DEF Store!StoreNext
<1>6. 0 \in 0 .. (FlushAttempts + LastAttempts - 2)
  BY QualityAssumption DEF QualityAssumption
<1>7. CASE FlushPending
  <2>1. PICK w : w = [writer EXCEPT !.at = writer.back, !.tries = 0]
    OBVIOUS
  <2>2. w \in WriterType /\ w.store = writer.store /\ w.taken = writer.taken
    BY <1>4, <1>6, <2>1 DEF WriterType
  <2>3. /\ ~Ended(writer) /\ writer.at # "loading" /\ UNCHANGED senders
        /\ SaveStore(w) \/ UNCHANGED onDisk
    BY <1>7, <2>1 DEF FlushPending, SaveFailed, Ended
  <2> QED BY <1>3, <2>2, <2>3 DEF Store!StoreNext
<1>8. CASE LastSave
  <2>1. PICK w : w = [writer EXCEPT !.at = "ended", !.tries = 0]
    OBVIOUS
  <2>2. w \in WriterType /\ w.store = writer.store /\ w.taken = writer.taken
    BY <1>4, <1>6, <2>1 DEF WriterType
  <2>3. /\ ~Ended(writer) /\ writer.at # "loading" /\ UNCHANGED senders
        /\ SaveStore(w) \/ UNCHANGED onDisk
    BY <1>8, <2>1 DEF LastSave, SaveFailed, Ended
  <2> QED BY <1>3, <2>2, <2>3 DEF Store!StoreNext
<1>9. OlderLives' \in BOOLEAN
  BY DEF OlderLives
<1>10. CASE StartServer
  BY <1>9, <1>10 DEF StartServer, Store!StoreNext, Store!Reopen
<1>11. CASE ProgramDies
  <2>1. ~OlderLives'
    BY <1>11, NoServerFacts DEF ProgramDies, OlderLives
  <2> QED BY <1>11, <2>1 DEF ProgramDies, qualityHistory, Store!StoreNext, Store!OthersEnd
<1>12. CASE OlderStep
  <2>1. OlderLives /\ written' = written /\ writer' = writer
    BY <1>12 DEF OlderStep, OlderLives
  <2>2. \/ UNCHANGED onDisk /\ loaded' = loaded
        \/ \E store \in Qualities : SavedOver(store)
    BY <1>12, OlderFacts DEF QualityInv
  <2>3. CASE UNCHANGED onDisk /\ loaded' = loaded
    BY <1>9, <2>1, <2>3 DEF onDisk, Store!StoreNext, Store!OthersEnd, Store!storeVars
  <2>4. CASE \E store \in Qualities : SavedOver(store)
    <3>1. PICK store \in Qualities : SavedOver(store)
      BY <2>4
    <3>2. disk' \in Qualities /\ saved' = saved
      BY <3>1 DEF SavedOver
    <3>3. loaded' = loaded \/ (saved = 0 /\ loaded = disk /\ loaded' = disk')
      <4>1. CASE writer.at = "loading"
        <5>1. NotLoaded
          BY <4>1 DEF QualityInv, RunningInv, Ended
        <5> QED BY <3>1, <4>1, <5>1 DEF SavedOver, NotLoaded
      <4>2. CASE writer.at # "loading"
        BY <3>1, <4>2 DEF SavedOver
      <4> QED BY <4>1, <4>2
    <3> QED BY <1>9, <2>1, <3>2, <3>3 DEF Qualities, Store!StoreNext, Store!Overwrite
  <2> QED BY <2>2, <2>3, <2>4
<1>13. CASE UNCHANGED qualityVars
  BY <1>13 DEF qualityVars, OlderLives, Store!storeVars
<1> QED BY <1>1, <1>2, <1>5, <1>7, <1>8, <1>10, <1>11, <1>12, <1>13
        DEF QualityNext, WriterStep, Store!StoreNext

(* Every step of the senders, the writer, a restart and a crash is a step  *)
(* of a store whose file lags behind, or leaves it alone: the file is what *)
(* some first writes make of it and never falls back, unless the writer of *)
(* an older server, whose threads nothing waits for, saves over it; and    *)
(* the next save then makes up for it (QualityWriteHandle; from_config and *)
(* stop of SmartProxyServer).                                              *)
THEOREM AlwaysLagsBehind == QualitySpec => LagsBehind
<1> QED BY LagsInit, LagsStep, QualityInvariance, PTL DEF QualitySpec, LagsBehind, Store!StoreSpec
=============================================================================
