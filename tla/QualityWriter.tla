---------------------------- MODULE QualityWriter ---------------------------
(***************************************************************************)
(* The writer of the key qualities (QualityWriteHandle of watchapi-core/   *)
(* src/aggregate_egress.rs 391-526; watchapi-gui/src/litellm_proxy.rs has  *)
(* the same code).  The forwarding threads send every new quality of a key *)
(* into a channel; one thread takes them out, keeps them in a store and    *)
(* saves the whole store from time to time, when it is asked to, and at    *)
(* the end.  A save may fail.  After a restart the qualities go on from    *)
(* what the file holds.                                                    *)
(*                                                                         *)
(* Stopping a server joins neither its client threads nor its writer: they *)
(* may live on beside those of the next server and save over its file.     *)
(* The variables are those of the newest server; older holds what is left  *)
(* of the ones before it.                                                  *)
(***************************************************************************)
EXTENDS Integers, Sequences

CONSTANTS
    QualityKey,      \* quality keys
    Batch,           \* a save is due after so many writes, 16
    FlushAttempts,   \* saves tried for a flush, QUALITY_FLUSH_ATTEMPTS, 40
    LastAttempts,    \* saves tried at the end, 5
    MaxQuality,      \* bound: outcomes per key
    MaxOlder         \* bound: older servers whose writers still live

ASSUME QualityAssumption ==
    /\ Batch \in Nat \ {0} /\ FlushAttempts \in Nat \ {0}
    /\ LastAttempts \in Nat \ {0} /\ MaxQuality \in Nat /\ MaxOlder \in Nat

VARIABLES
    quality,      \* the qualities of the keys, as many outcomes as they count
    channel,      \* writes and flushes on their way
    open,         \* somebody still holds the sending end
    writer,       \* the writer thread
    disk,         \* the file
    flushing,     \* what is known of the last flush
    older,        \* the older servers, as far as their writers still live
    written,      \* history: the writes since the start
    saved,        \* history: how many of them the last save held
    over,         \* history: an older writer has saved since then
    loaded,       \* history: what the writer has loaded or would load now
    mark          \* history: the writes before the last flush was asked for

qualityVars == <<quality, channel, open, writer, disk, flushing, older, written, saved,
                 over, loaded, mark>>

Nowhere == [at |-> "killed", back |-> "waiting", store |-> [k \in QualityKey |-> 0],
            pending |-> 0, tries |-> 0, taken |-> 0]

(* The thread loads the file itself, after it has been started.            *)
Starting == [Nowhere EXCEPT !.at = "loading"]

LoadedFrom(d) == [Nowhere EXCEPT !.at = "waiting", !.store = d]

Ended(w) == w.at \in {"ended", "killed"}

NoServer == [quality |-> Nowhere.store, channel |-> <<>>, open |-> FALSE, writer |-> Nowhere]

OnlyOne == [i \in 1 .. MaxOlder |-> NoServer]

OlderLives == \E i \in 1 .. MaxOlder : ~Ended(older[i].writer)

QualityInit ==
    /\ disk = [k \in QualityKey |-> 0]
    /\ quality = disk /\ loaded = disk
    /\ channel = <<>> /\ open = TRUE
    /\ writer = Starting
    /\ flushing = "none" /\ older = OnlyOne
    /\ written = <<>> /\ saved = 0 /\ over = FALSE /\ mark = 0

qualityHistory == <<written, saved, over, loaded, mark>>

(***************************************************************************)
(* The senders.                                                            *)
(***************************************************************************)
(* persist: sent while the table of the qualities is locked.               *)
Persist(k) ==
    /\ open /\ quality[k] < MaxQuality
    /\ quality' = [quality EXCEPT ![k] = @ + 1]
    /\ LET w == [key |-> k, value |-> quality'[k]]
       IN /\ channel' = Append(channel, [kind |-> "write", write |-> w])
          /\ written' = Append(written, w)
    /\ UNCHANGED <<open, writer, disk, flushing, older, saved, over, loaded, mark>>

(* flush_with_timeout, not again before the last one is out of the channel.*)
AskFlush ==
    /\ open /\ flushing \notin {"asked", "abandoned"}
    /\ channel' = Append(channel, [kind |-> "flush"])
    /\ flushing' = "asked"
    /\ mark' = Len(written)
    /\ UNCHANGED <<quality, open, writer, disk, older, written, saved, over, loaded>>

FlushTimeout ==
    /\ flushing = "asked"
    /\ flushing' = "abandoned"
    /\ UNCHANGED <<quality, channel, open, writer, disk, older, qualityHistory>>

(* The server is dropped and its last forwarding thread has ended.         *)
Close ==
    /\ open /\ flushing # "asked"
    /\ open' = FALSE
    /\ UNCHANGED <<quality, channel, writer, disk, flushing, older, qualityHistory>>

(***************************************************************************)
(* The writer thread.                                                      *)
(***************************************************************************)
senders == <<quality, open, older, written, loaded, mark>>
onDisk == <<disk, saved, over>>

WriterBecomes(w) == writer' = w

Load ==
    /\ writer.at = "loading"
    /\ WriterBecomes(LoadedFrom(disk))
    /\ UNCHANGED <<channel, flushing, onDisk>> /\ UNCHANGED senders

Received(w, command) ==
    IF command.kind = "flush" THEN [w EXCEPT !.at = "flushing", !.back = w.at]
    ELSE [w EXCEPT !.at = "draining", !.pending = @ + 1, !.taken = @ + 1,
                   !.store[command.write.key] = command.write.value]

TakeCommand ==
    /\ writer.at \in {"waiting", "draining"} /\ channel # <<>>
    /\ WriterBecomes(Received(writer, Head(channel)))
    /\ channel' = Tail(channel)
    /\ UNCHANGED <<flushing, onDisk>> /\ UNCHANGED senders

(* Broken variant: only the newest write reaches the file.                 *)
SaveNewest(w) ==
    /\ disk' = IF w.taken = 0 THEN disk
               ELSE [disk EXCEPT ![written[w.taken].key] = w.store[written[w.taken].key]]
    /\ saved' = w.taken /\ over' = FALSE
    /\ WriterBecomes([w EXCEPT !.pending = 0])

SaveStore(w) ==
    /\ disk' = w.store
    /\ saved' = w.taken /\ over' = FALSE
    /\ WriterBecomes([w EXCEPT !.pending = 0])

SaveFailed(w) == WriterBecomes(w) /\ UNCHANGED onDisk

(* The channel is drained: save when it is due.                            *)
Drained ==
    /\ writer.at = "draining" /\ channel = <<>>
    /\ LET w == [writer EXCEPT !.at = "waiting"]
       IN \/ SaveStore(w)
          \/ SaveFailed(w)
          \/ writer.pending < Batch /\ WriterBecomes(w) /\ UNCHANGED onDisk
    /\ UNCHANGED <<channel, flushing>> /\ UNCHANGED senders

FlushAnswers(how) == flushing' = IF flushing = "asked" THEN how ELSE "none"

(* Broken variant: a few pending writes are left for later.                *)
FewToSave == writer.pending < Batch

NothingToSave == writer.pending = 0

Retried(w, most, end) == IF w.tries + 1 < most THEN [w EXCEPT !.tries = @ + 1] ELSE end

(* flush_quality_pending. The last failure is answered like a success.     *)
FlushPending ==
    /\ writer.at = "flushing"
    /\ LET end == [writer EXCEPT !.at = writer.back, !.tries = 0]
           again == Retried(writer, FlushAttempts, end)
       IN \/ /\ NothingToSave
             /\ WriterBecomes(end) /\ FlushAnswers("kept") /\ UNCHANGED onDisk
          \/ /\ ~NothingToSave
             /\ SaveStore(end) /\ FlushAnswers("kept")
          \/ /\ ~NothingToSave
             /\ SaveFailed(again)
             /\ IF again = end THEN FlushAnswers("failed") ELSE UNCHANGED flushing
    /\ UNCHANGED channel /\ UNCHANGED senders

(* Nobody sends any more.                                                  *)
Disconnected ==
    /\ writer.at = "waiting" /\ channel = <<>> /\ ~open
    /\ WriterBecomes([writer EXCEPT !.at = "closing"])
    /\ UNCHANGED <<channel, flushing, onDisk>> /\ UNCHANGED senders

LastSave ==
    /\ writer.at = "closing"
    /\ LET end == [writer EXCEPT !.at = "ended", !.tries = 0]
       IN \/ NothingToSave /\ WriterBecomes(end) /\ UNCHANGED onDisk
          \/ ~NothingToSave /\ SaveStore(end)
          \/ ~NothingToSave /\ SaveFailed(Retried(writer, LastAttempts, end))
    /\ UNCHANGED <<channel, flushing>> /\ UNCHANGED senders

(***************************************************************************)
(* What is left of the older servers: client threads that finish their     *)
(* requests, and a writer that goes on until the last of them has ended.   *)
(***************************************************************************)
OlderBecomes(i, s) == older' = [older EXCEPT ![i] = s]

(* Where a writer goes on after a save, or without it.                     *)
Resting(w) == [w EXCEPT !.at = IF @ = "flushing" THEN w.back ELSE "waiting", !.tries = 0]

OlderPersists(i, k) ==
    /\ older[i].open /\ older[i].quality[k] < MaxQuality
    /\ LET s == older[i]
           w == [key |-> k, value |-> s.quality[k] + 1]
       IN OlderBecomes(i, [s EXCEPT !.quality = [@ EXCEPT ![k] = w.value],
                             !.channel = Append(@, [kind |-> "write", write |-> w])])
    /\ UNCHANGED onDisk /\ loaded' = loaded

OlderCloses(i) ==
    /\ older[i].open
    /\ OlderBecomes(i, [older[i] EXCEPT !.open = FALSE])
    /\ UNCHANGED onDisk /\ loaded' = loaded

OlderTakes(i) ==
    /\ LET s == older[i]
       IN \/ /\ s.writer.at = "loading"
             /\ OlderBecomes(i, [s EXCEPT !.writer = LoadedFrom(disk)])
          \/ /\ s.writer.at \in {"waiting", "draining"} /\ s.channel # <<>>
             /\ OlderBecomes(i, [s EXCEPT !.writer = Received(s.writer, Head(s.channel)),
                                          !.channel = Tail(s.channel)])
    /\ UNCHANGED onDisk /\ loaded' = loaded

(* The file is another one, also for a writer that has not loaded it yet.  *)
SavedOver(store) ==
    /\ disk' = store /\ saved' = saved
    /\ over' = (writer.at # "loading")
    /\ loaded' = IF writer.at = "loading" THEN store ELSE loaded

MaySave(s) ==
    \/ s.writer.at = "draining" /\ s.channel = <<>>
    \/ s.writer.at = "flushing" /\ s.writer.pending # 0

OlderSaves(i) ==
    /\ MaySave(older[i])
    /\ OlderBecomes(i, [older[i] EXCEPT !.writer = [Resting(@) EXCEPT !.pending = 0]])
    /\ SavedOver(older[i].writer.store)

(* A save that is not due, or has failed too often.                        *)
OlderGoesOn(i) ==
    /\ MaySave(older[i]) \/ older[i].writer.at = "flushing"
    /\ OlderBecomes(i, [older[i] EXCEPT !.writer = Resting(@)])
    /\ UNCHANGED onDisk /\ loaded' = loaded

(* The last save, of what is pending, may fail too.                        *)
OlderEnds(i) ==
    /\ ~older[i].open /\ older[i].channel = <<>>
    /\ older[i].writer.at \in {"waiting", "closing"}
    /\ OlderBecomes(i, NoServer)
    /\ \/ UNCHANGED onDisk /\ loaded' = loaded
       \/ older[i].writer.pending # 0 /\ SavedOver(older[i].writer.store)

OlderStep ==
    /\ \E i \in 1 .. MaxOlder :
       /\ ~Ended(older[i].writer)
       /\ \/ \E k \in QualityKey : OlderPersists(i, k)
          \/ OlderCloses(i) \/ OlderTakes(i)
          \/ OlderSaves(i) \/ OlderGoesOn(i) \/ OlderEnds(i)
    /\ UNCHANGED <<quality, channel, open, writer, flushing, written, mark>>

(***************************************************************************)
(* The program dies; the server is started, again or for the first time.   *)
(***************************************************************************)
ProgramDies ==
    /\ ~Ended(writer) \/ OlderLives
    /\ writer' = Nowhere /\ older' = OnlyOne
    /\ channel' = <<>> /\ open' = FALSE /\ flushing' = "none"
    /\ UNCHANGED <<quality, disk, qualityHistory>>

ThisServer == [quality |-> quality, channel |-> channel, open |-> open, writer |-> writer]

(* from_config and start, once the flush of the last server has been       *)
(* answered or given up: nothing waits for its threads.                    *)
StartServer ==
    /\ flushing # "asked"
    /\ \/ Ended(writer) /\ older' = older
       \/ /\ ~Ended(writer)
          /\ \E i \in 1 .. MaxOlder :
               Ended(older[i].writer) /\ OlderBecomes(i, ThisServer)
    /\ quality' = disk /\ loaded' = disk
    /\ writer' = Starting
    /\ channel' = <<>> /\ open' = TRUE /\ flushing' = "none"
    /\ written' = <<>> /\ saved' = 0 /\ over' = FALSE /\ mark' = 0
    /\ UNCHANGED disk

WriterStep == Load \/ TakeCommand \/ Drained \/ FlushPending \/ Disconnected \/ LastSave

QualityNext ==
    \/ \E k \in QualityKey : Persist(k)
    \/ AskFlush \/ FlushTimeout \/ Close
    \/ WriterStep \/ OlderStep
    \/ ProgramDies \/ StartServer

QualitySpec == QualityInit /\ [][QualityNext]_qualityVars

(***************************************************************************)
(* Properties.                                                             *)
(***************************************************************************)
Qualities == [QualityKey -> 0 .. MaxQuality]

WriterType ==
    [at : {"loading", "waiting", "draining", "flushing", "closing", "ended", "killed"},
     back : {"waiting", "draining"}, store : Qualities, pending : Nat,
     tries : 0 .. (FlushAttempts + LastAttempts - 2), taken : Nat]

QualityWrite == [key : QualityKey, value : 0 .. MaxQuality]
QualityCommand == [kind : {"flush"}] \cup [kind : {"write"}, write : QualityWrite]

Server == [quality : Qualities, channel : Seq(QualityCommand), open : BOOLEAN,
           writer : WriterType]

QualityTypeOK ==
    /\ quality \in Qualities /\ disk \in Qualities /\ loaded \in Qualities
    /\ channel \in Seq(QualityCommand)
    /\ open \in BOOLEAN
    /\ writer \in WriterType
    /\ flushing \in {"none", "asked", "abandoned", "kept", "failed"}
    /\ older \in [1 .. MaxOlder -> Server] /\ over \in BOOLEAN
    /\ written \in Seq(QualityWrite) /\ saved \in Nat /\ mark \in Nat

(* What the store holds and the file does not is still pending, whichever  *)
(* saves failed (flush_quality_pending and the saves of the loop), unless  *)
(* the writer of an older server has saved over the file.                  *)
UnsavedPending ==
    writer.at \notin {"loading", "killed"} /\ writer.pending = 0 /\ ~over
        => disk = writer.store

(* A flush that was answered and whose saves did not fail has saved every  *)
(* write sent before it.                                                   *)
FlushKeeps == flushing = "kept" => saved >= mark

(* The abstract promise.                                                   *)
Store == INSTANCE LaggingStore
    WITH Name <- QualityKey, Value <- 0 .. MaxQuality, base <- loaded, records <- written,
         kept <- saved, file <- disk, others <- OlderLives

(* While no older server lives, the file holds what the first so many      *)
(* writes make of it and never fewer than before, through failing saves,   *)
(* flushes, ends and crashes.  The writer of an older one may put its own  *)
(* store in the place of the file; the next save makes up for all of it.   *)
(* (QualityWriteHandle; SmartProxyServer::from_config and stop.)           *)
LagsBehind == Store!StoreSpec

=============================================================================
