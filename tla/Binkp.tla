------------------------------- MODULE Binkp -------------------------------
(***************************************************************************)
(* The file transfer of two mbcico over binkp (mbcico/binkp.c from         *)
(* file_transfer() on, with mbcico/bopenfile.c): both sides send the files *)
(* they hold for each other over one TCP connection, and both run a        *)
(* receiver and a transmitter that take turns.  Sessions may break and are *)
(* repeated, so that partially received files are resumed.  A file is a    *)
(* name with a version; what is received is the sequence of blocks that    *)
(* are in it.  The protocol is the one two mbcico agree on: binkp/1.1 with *)
(* CRC mode.  Compression, NR mode and file requests are left out.         *)
(***************************************************************************)
EXTENDS Integers, Sequences, FiniteSets, SequencesExt

CONSTANTS Files,        \* names of files
          Owners,       \* the ways the files belong to the two sides
          Blocks,       \* Blocks[f][v]: the length of version v of f
          Kept,         \* bound: the parts of files that earlier sessions left
          MaxBatch,     \* batches in which files are sent; 20 in the code
          MaxRoom,      \* frames under way after which the output has no room
          MaxSession,   \* bound: sessions
          MaxFaults,    \* bound: things that go wrong
          NoFile        \* instead of a file

Peers == {"org", "ans"}
Other(p) == CHOOSE q \in Peers : q # p
Versions == {1, 2}
Content(f, v) == [i \in 1..Blocks[f][v] |-> <<f, v>>]

ASSUME FilesAssumption == /\ IsFiniteSet(Files) /\ NoFile \notin Files
                          /\ Owners \subseteq [Files -> Peers]
                          /\ Blocks \in [Files -> [Versions -> Nat \ {0}]]
                          /\ Kept \subseteq [Files -> Seq(Files \X Versions)]
                          /\ MaxBatch \in Nat

VARIABLES
    owner,      \* owner[f]: the side that sends f
    outbound,   \* the files that are still to be sent
    version,    \* version[f]: the one in the outbound
    tmp,        \* tmp[f]: what is in the temporary directory of the receiver
    inbound,    \* inbound[f]: what was received as complete
    line,       \* the connection: "up", "silent", "down"
    chan,       \* chan[p]: the frames on their way to p
    ft, rc,     \* FtState and the result of the session
    rx,         \* the receiver: RxState, rname, rxfp, rxbytes, rxpos, rcrcerr
    tx,         \* the transmitter: TxState, a filelist exists, cursend, txpos
    bll,        \* the list of files to send with their states
    tql,        \* the messages for the transmitter
    eob,        \* local_EOB, remote_EOB
    messages,   \* commands sent and received in the batch, counted to 3
    batch,      \* batchnr
    session,    \* number of the session
    faults      \* history: what has gone wrong

fileVars == <<owner, outbound, version, tmp, inbound>>
peerVars == <<ft, rc, rx, tx, bll, tql, eob, messages, batch>>
vars == <<fileVars, line, chan, peerVars, session, faults>>

\* What faults tells apart: a received file that cannot be moved, a file that
\* is replaced, any other fault; a file that is asked for from an offset, and a
\* batch that ends while such a file is being received.
Kinds == {"move", "changed", "fault", "resync", "cut"}

Frame(cmd) == [cmd |-> cmd, file |-> NoFile, ver |-> 1, off |-> 0]
About(cmd, m) == [m EXCEPT !.cmd = cmd]
Commands == {"NUL", "FILE", "EOB", "GOT", "ERR", "BSY", "GET", "SKIP"}

NoEOB  == [local |-> FALSE, remote |-> FALSE]
RxIdle == [st |-> "WaitF", file |-> NoFile, ver |-> 1, fp |-> NoFile,
           bytes |-> 0, pos |-> 0, crcerr |-> FALSE]
TxIdle == [st |-> "GNF", listed |-> FALSE, cur |-> 0, pos |-> 0]

\* InitTransfer, on both sides.
SessionStart ==
    /\ line = "up" /\ chan = [p \in Peers |-> <<>>]
    /\ ft = [p \in Peers |-> "Switch"] /\ rc = [p \in Peers |-> "ok"]
    /\ rx = [p \in Peers |-> RxIdle] /\ tx = [p \in Peers |-> TxIdle]
    /\ bll = [p \in Peers |-> <<>>] /\ tql = [p \in Peers |-> <<>>]
    /\ eob = [p \in Peers |-> NoEOB]
    /\ messages = [p \in Peers |-> 0] /\ batch = [p \in Peers |-> 0]

\* The same, for every further session.
NewSessionState ==
    /\ line' = "up" /\ chan' = [p \in Peers |-> <<>>]
    /\ ft' = [p \in Peers |-> "Switch"] /\ rc' = [p \in Peers |-> "ok"]
    /\ rx' = [p \in Peers |-> RxIdle] /\ tx' = [p \in Peers |-> TxIdle]
    /\ bll' = [p \in Peers |-> <<>>] /\ tql' = [p \in Peers |-> <<>>]
    /\ eob' = [p \in Peers |-> NoEOB]
    /\ messages' = [p \in Peers |-> 0] /\ batch' = [p \in Peers |-> 0]

\* All is still to be done, or the last session begins: the earlier ones, in
\* which a fault each was met, have left parts of files that go the same way.
FirstSession == /\ version = [f \in Files |-> 1]
                /\ tmp = [f \in Files |-> <<>>]
                /\ session = 1 /\ faults = {}
LastSession == /\ version = [f \in Files |-> 2]
               /\ tmp \in Kept /\ \E p \in Peers : owner = [f \in Files |-> p]
               /\ session = MaxSession
               /\ faults = {<<"fault", n>> : n \in 1..(MaxSession - 1)}

Init == /\ owner \in Owners /\ outbound = Files
        /\ inbound = [f \in Files |-> <<>>]
        /\ FirstSession \/ LastSession
        /\ SessionStart

-----------------------------------------------------------------------------
(* Helpers *)

Happens(kind) == faults' = faults \cup {<<kind, session>>}
Fails(kind) == /\ Cardinality({x \in faults : x[1] \in {"move", "fault"}}) < MaxFaults
               /\ <<kind, session>> \notin faults
               /\ Happens(kind)
AllWell == UNCHANGED faults

Count(n, more) == IF n + more > 3 THEN 3 ELSE n + more

\* The frames of out that get to the other side.
Carried(p, out) == IF line = "down" \/ ft[Other(p)] = "Done" THEN <<>> ELSE out

\* Frames the code has room for are limited by the TCP buffers.
Room(p) == Len(chan[Other(p)]) < MaxRoom

\* binkp_pendingfiles()
PendingSkipped(p) == \E i \in DOMAIN bll[p] : bll[p][i].st # "Got"
Pending(p) == \E i \in DOMAIN bll[p] : bll[p][i].st \notin {"Got", "Skipped"}
BothEOBLocal(p) == eob[p].local
BothEOB(p) == eob[p].local /\ eob[p].remote
Finished(p) == rx[p].st = "Done" /\ tx[p].st = "Done"

\* A turn of a transmitter changes only what is its own and adds to the
\* channel, so that nothing is lost when it is not interrupted.
Turn(p) == ft[p] \in {"Transmit", "Process", "Deinit"}
Switches(p) == ft[p] = "Switch" /\ ~Turn(Other(p))

\* An error ends the session.
Broken(p) == /\ ft' = [ft EXCEPT ![p] = "Deinit"]
             /\ rc' = [rc EXCEPT ![p] = "failed"]

\* A batch is over: everything starts again, with a new list of files.
NewBatch(p) == /\ batch' = [batch EXCEPT ![p] = IF @ < MaxBatch THEN @ + 1 ELSE @]
               /\ eob' = [eob EXCEPT ![p] = NoEOB]
               /\ messages' = [messages EXCEPT ![p] = 0]
               /\ tx' = [tx EXCEPT ![p].st = "GNF", ![p].listed = FALSE]
               /\ rx' = [rx EXCEPT ![p].st = "WaitF"]
               /\ bll' = [bll EXCEPT ![p] = <<>>]

-----------------------------------------------------------------------------
(* The receiver.  binkp_poll_frame() takes a frame and counts it; an       *)
(* M_EOB is noted at once.  After a frame the transmitter gets a turn when *)
(* both sides are in EOB state.                                            *)

Polls(p, cmds) == /\ Switches(p) /\ ~Finished(p)
                  /\ line = "up"
                  /\ chan[p] # <<>> /\ Head(chan[p]).cmd \in cmds

Polled(p) == IF Head(chan[p]).cmd \in Commands THEN 1 ELSE 0
Remote(p) == [eob[p] EXCEPT !.remote = @ \/ Head(chan[p]).cmd = "EOB"]

\* Take the frame, answer with the frames of reply and go on.
Answer(p, reply) ==
    /\ chan' = [chan EXCEPT ![p] = Tail(@), ![Other(p)] = @ \o Carried(p, reply)]
    /\ messages' = [messages EXCEPT ![p] = Count(@, Polled(p) + Len(reply))]
    /\ eob' = [eob EXCEPT ![p] = Remote(p)]
AnswerOk(p, reply) ==
    /\ Answer(p, reply)
    /\ ft' = [ft EXCEPT ![p] = IF Remote(p).local /\ Remote(p).remote
                               THEN "Transmit" ELSE "Switch"]
    /\ UNCHANGED <<rc, tx, bll, batch>>
AnswerFailure(p, reply) == /\ Answer(p, reply)
                           /\ Broken(p)
                           /\ UNCHANGED <<tx, bll, batch>>

\* Ignored frames.
RxIgnore(p) == /\ \/ Polls(p, {"NUL"})
                  \/ Polls(p, {"DATA"}) /\ rx[p].st = "WaitF"
               /\ AnswerOk(p, <<>>)
               /\ UNCHANGED <<rx, tql, fileVars, line, session, faults>>

\* Answers to what was sent are for the transmitter.
RxAddMessage(p) == /\ Polls(p, {"GET", "GOT", "SKIP"})
                   /\ tql' = [tql EXCEPT ![p] = Append(@, Head(chan[p]))]
                   /\ AnswerOk(p, <<>>)
                   /\ UNCHANGED <<rx, fileVars, line, session, faults>>

\* M_EOB ends the batch when all was answered here and something was done.
RxEob(p) ==
    /\ Polls(p, {"EOB"}) /\ rx[p].st = "WaitF"
    /\ IF eob[p].local /\ messages[p] + 1 >= 3 /\ ~Pending(p)
       THEN /\ NewBatch(p)
            /\ chan' = [chan EXCEPT ![p] = Tail(@)]
            /\ UNCHANGED <<ft, rc>>
       ELSE /\ AnswerOk(p, <<>>)
            /\ UNCHANGED rx
    /\ UNCHANGED <<tql, fileVars, line, session, faults>>

\* The file is open already when it is resumed where M_GET said.
Resumes(p, m) == m.off # 0 /\ m.off = rx[p].bytes
\* rxfp when M_FILE arrives: the file that was being received is closed.
Open(p) == IF rx[p].st = "ReceD" THEN NoFile ELSE rx[p].fp
Had(p, m) == IF Resumes(p, m) THEN rx[p].bytes ELSE Len(tmp[m.file])

Accepted(p, m, st, fp) ==
    rx' = [rx EXCEPT ![p] = [@ EXCEPT !.st = st, !.fp = fp, !.file = m.file,
                                      !.ver = m.ver, !.bytes = Had(p, m), !.pos = m.off]]

\* The offer the receiver takes now, if any.  One that goes on with a file that
\* is not open ends the program: fseek() is called on no file.
Offered(p) == IF Polls(p, {"FILE"}) /\ rx[p].st \in {"WaitF", "ReceD"}
              THEN {Head(chan[p])} ELSE {}
NotOpen(p, m) == Resumes(p, m) /\ Open(p) = NoFile
Offers(p) == {m \in Offered(p) : ~NotOpen(p, m)}

\* M_ERR, and every frame that does not belong here, ends the session.
RxUnexpected(p) ==
    /\ \/ Polls(p, {"ERR", "BSY"})
       \/ Polls(p, {"EOB"}) /\ rx[p].st = "ReceD"
       \/ \E m \in Offered(p) : NotOpen(p, m)
    /\ rx' = [rx EXCEPT ![p].st = "Done"]
    /\ AnswerFailure(p, <<>>)
    /\ UNCHANGED <<tql, fileVars, line, session, faults>>

\* RxAccF: an offered file is refused for it is there already, it is asked
\* for from where the partial file ends, or its data are awaited; it is
\* skipped when it cannot be opened or the disk is too full for it.
RxFile(p) ==
    \E m \in Offers(p), full \in BOOLEAN :
       LET size == Blocks[m.file][m.ver]
           had  == Had(p, m)
           fp   == IF full THEN NoFile ELSE IF Resumes(p, m) THEN Open(p) ELSE m.file
       IN  /\ \/ /\ size = had
                 /\ IF full THEN Fails("fault") ELSE AllWell
                 /\ Accepted(p, m, "WaitF", NoFile)
                 /\ AnswerOk(p, <<About("GOT", m)>>)
              \/ /\ had < size /\ m.off = 0 /\ had > 0
                 /\ IF full THEN Fails("fault") ELSE Happens("resync")
                 /\ Accepted(p, m, "WaitF", fp)
                 /\ AnswerOk(p, <<[About("GET", m) EXCEPT !.off = had]>>)
              \/ /\ size # had /\ (m.off # 0 \/ had = 0 \/ had > size)
                 /\ IF full THEN Fails("fault") ELSE AllWell
                 /\ Accepted(p, m, IF full THEN "WaitF" ELSE "ReceD", fp)
                 /\ AnswerOk(p, IF full THEN <<About("SKIP", m)>> ELSE <<>>)
           /\ UNCHANGED <<tql, fileVars, line, session>>

\* There is less than the configured free space.
RxLowDisk(p) ==
    /\ Offers(p) # {}
    /\ Fails("fault")
    /\ rx' = [rx EXCEPT ![p].st = "Done"]
    /\ AnswerFailure(p, <<Frame("BSY")>>)
    /\ UNCHANGED <<tql, fileVars, line, session>>

Receives(p) == /\ Polls(p, {"DATA"}) /\ rx[p].st = "ReceD"
               /\ UNCHANGED <<owner, outbound, version, tql, line, session>>

\* RxWriteD: one block; the last one closes the file.
RxData(p) ==
    LET r    == rx[p]
        m    == Head(chan[p])
        have == Append(tmp[r.fp], <<m.file, m.ver>>)
        last == r.pos + 1 = Blocks[r.file][r.ver]
    IN  /\ Receives(p)
        /\ last => have = Content(r.file, r.ver)
        /\ rx' = [rx EXCEPT ![p].pos = @ + 1, ![p].st = IF last THEN "WaitF" ELSE "ReceD"]
        /\ \/ /\ ~last
              /\ AllWell
              /\ tmp' = [tmp EXCEPT ![r.fp] = have]
              /\ UNCHANGED inbound
              /\ AnswerOk(p, <<>>)
           \/ /\ last
              /\ \/ /\ AllWell
                    /\ tmp' = [tmp EXCEPT ![r.fp] = <<>>]
                    /\ inbound' = [inbound EXCEPT ![r.fp] = have]
                 \/ /\ Fails("move")
                    /\ tmp' = [tmp EXCEPT ![r.fp] = have]
                    /\ UNCHANGED inbound
              /\ AnswerOk(p, <<[Frame("GOT") EXCEPT !.file = r.file, !.ver = r.ver]>>)

\* In CRC mode a damaged file is removed and skipped, a second one is fatal.
RxDamaged(p) ==
    LET r == rx[p]
        m == Head(chan[p])
    IN  /\ Receives(p)
        /\ r.pos + 1 = Blocks[r.file][r.ver]
        /\ Append(tmp[r.fp], <<m.file, m.ver>>) # Content(r.file, r.ver)
        /\ tmp' = [tmp EXCEPT ![r.fp] = <<>>]
        /\ rx' = [rx EXCEPT ![p].crcerr = TRUE, ![p].st = IF r.crcerr THEN "Done" ELSE "WaitF"]
        /\ IF r.crcerr
           THEN AnswerFailure(p, <<Frame("ERR")>>)
           ELSE AnswerOk(p, <<[Frame("SKIP") EXCEPT !.file = r.file, !.ver = r.ver]>>)
        /\ UNCHANGED <<inbound, faults>>

RxWriteError(p) == /\ Receives(p)
                   /\ Fails("fault")
                   /\ rx' = [rx EXCEPT ![p].st = "Done"]
                   /\ AnswerFailure(p, <<>>)
                   /\ UNCHANGED <<tmp, inbound>>

\* The connection is gone, or the other side has closed it.
RxHangup(p) == /\ Switches(p) /\ ~Finished(p)
               /\ chan[p] = <<>>
               /\ \/ line = "down"
                  \/ line = "up" /\ ft[Other(p)] = "Done"
               /\ Broken(p)
               /\ UNCHANGED <<fileVars, line, chan, rx, tx, bll, tql, eob, messages, batch,
                              session, faults>>

Receiver(p) == \/ RxIgnore(p) \/ RxAddMessage(p) \/ RxEob(p) \/ RxUnexpected(p)
               \/ RxFile(p) \/ RxLowDisk(p)
               \/ RxData(p) \/ RxDamaged(p) \/ RxWriteError(p) \/ RxHangup(p)

-----------------------------------------------------------------------------
(* The transmitter.  It runs when the output has room, or when it is asked *)
(* to continue.                                                            *)

Runs(p, st) == /\ ~Finished(p)
               /\ ft[p] = "Transmit" \/ (Switches(p) /\ Room(p))
               /\ tx[p].st = st

\* Send the frames out, then go on with the transmitter or leave it.
Sends(p, out, state) ==
    /\ chan' = [chan EXCEPT ![Other(p)] = @ \o Carried(p, out)]
    /\ messages' = [messages EXCEPT
           ![p] = Count(@, Len(SelectSeq(out, LAMBDA m : m.cmd \in Commands)))]
    /\ ft' = [ft EXCEPT ![p] = state]
    /\ UNCHANGED <<rc, rx, line, session>>

ToSend(p) == {f \in outbound : owner[f] = p}
Listed(f) == [file |-> f, ver |-> version[f], st |-> "No", off |-> 0]

\* The list of files, made of what is in the outbound in any order when there
\* is none; after MaxBatch batches nothing more is sent.
Lists(p) == IF tx[p].listed THEN {bll[p]}
            ELSE IF batch[p] >= MaxBatch THEN {<<>>}
            ELSE {[i \in DOMAIN s |-> Listed(s[i])] : s \in SetToSeqs(ToSend(p))}
Trf(p) == IF ~tx[p].listed /\ (batch[p] = 0 \/ (batch[p] < MaxBatch /\ ToSend(p) # {}))
          THEN <<Frame("NUL")>> ELSE <<>>

\* TxGNF: offer the next file, or tell that there are no more.
TxNext(p) ==
    /\ Runs(p, "GNF")
    /\ \E list \in Lists(p) :
       LET open == {i \in DOMAIN list : list[i].st = "No"}
           i    == CHOOSE j \in open : \A k \in open : j <= k
           m    == [cmd |-> "FILE", file |-> list[i].file, ver |-> list[i].ver, off |-> list[i].off]
       IN  \/ /\ open = {}
              /\ bll' = [bll EXCEPT ![p] = list]
              /\ tx' = [tx EXCEPT ![p].st = "WLA", ![p].listed = TRUE]
              /\ eob' = [eob EXCEPT ![p].local = TRUE]
              /\ AllWell
              /\ Sends(p, Trf(p) \o <<Frame("EOB")>>, "Transmit")
           \/ /\ open # {}
              /\ bll' = [bll EXCEPT ![p] = [list EXCEPT ![i].st = "Sending"]]
              /\ tx' = [tx EXCEPT ![p] = [st |-> "TryR", listed |-> TRUE, cur |-> i, pos |-> m.off]]
              /\ AllWell
              /\ Sends(p, Trf(p) \o <<m>>, "Transmit")
              /\ UNCHANGED eob
           \/ /\ open # {}
              /\ bll' = [bll EXCEPT ![p] = [list EXCEPT ![i].st = "Skipped"]]
              /\ tx' = [tx EXCEPT ![p].listed = TRUE]
              /\ Fails("fault")
              /\ Sends(p, Trf(p), "Switch")
              /\ UNCHANGED eob
    /\ UNCHANGED <<fileVars, tql, batch>>

\* TxTryR, TxReadS: messages first, then a block.  The end of the file is seen
\* with the last block when that is short, else by reading once more.
TxBlock(p) ==
    LET e    == bll[p][tx[p].cur]
        size == Blocks[e.file][e.ver]
    IN  /\ Runs(p, "TryR") /\ tql[p] = <<>>
        /\ Sends(p, IF tx[p].pos >= size THEN <<>>
                    ELSE <<[Frame("DATA") EXCEPT !.file = e.file, !.ver = e.ver]>>, "Switch")
        /\ \/ /\ tx[p].pos + 1 >= size
              /\ tx' = [tx EXCEPT ![p].st = "GNF", ![p].cur = 0]
              /\ bll' = [bll EXCEPT ![p][tx[p].cur].st = "IsSent"]
           \/ /\ tx[p].pos < size
              /\ tx' = [tx EXCEPT ![p].pos = @ + 1]
              /\ UNCHANGED bll
        /\ UNCHANGED <<fileVars, tql, eob, batch, faults>>

\* binkp_process_messages() works off the queue in one go.
TxMessages(p) == /\ \/ Runs(p, "TryR") \/ Runs(p, "WLA")
                 /\ tql[p] # <<>>
                 /\ ft' = [ft EXCEPT ![p] = "Process"]
                 /\ UNCHANGED <<fileVars, line, chan, rc, rx, tx, bll, tql, eob, messages, batch,
                                session, faults>>

Concerns(p, m) == {i \in DOMAIN bll[p] : bll[p][i].file = m.file /\ bll[p][i].ver = m.ver}

\* The file that is being sent is closed when the answer is about it.
Stops(p, i) == tx' = [tx EXCEPT ![p] = IF bll[p][i].st = "Sending"
                                       THEN [@ EXCEPT !.st = "GNF", !.cur = 0] ELSE @]

\* execute_disposition(), for the file the receiver has got.
DisposedSkipped(m) == IF m.cmd \in {"GOT", "SKIP"} THEN {m.file} ELSE {}
Disposed(m) == IF m.cmd = "GOT" THEN {m.file} ELSE {}

TxMessage(p) ==
    /\ ft[p] = "Process" /\ tql[p] # <<>>
    /\ LET m == Head(tql[p])
       IN  \/ /\ Concerns(p, m) = {}
              /\ UNCHANGED <<bll, tx, outbound>>
           \/ \E i \in Concerns(p, m) :
              /\ outbound' = outbound \ Disposed(m)
              /\ \/ /\ m.cmd = "GET"
                    /\ bll' = [bll EXCEPT ![p][i] = [@ EXCEPT !.st = "No", !.off = m.off]]
                    /\ tx' = [tx EXCEPT ![p].st = "GNF"]
                 \/ /\ m.cmd = "GOT"
                    /\ bll' = [bll EXCEPT ![p][i].st = "Got"]
                    /\ Stops(p, i)
                 \/ /\ m.cmd = "SKIP"
                    /\ bll' = [bll EXCEPT ![p][i].st = "Skipped"]
                    /\ Stops(p, i)
    /\ tql' = [tql EXCEPT ![p] = Tail(@)]
    /\ ft' = [ft EXCEPT ![p] = IF Len(tql[p]) = 1 THEN "Transmit" ELSE "Process"]
    /\ UNCHANGED <<owner, version, tmp, inbound, line, chan, rc, rx, eob, messages, batch,
                   session, faults>>

\* TxWLA: every file has been answered.  The list is dropped, and when the
\* other side has finished too the session or the batch is over.
TxAnswered(p) ==
    /\ Runs(p, "WLA") /\ tql[p] = <<>> /\ ~Pending(p)
    /\ \/ /\ BothEOB(p) /\ messages[p] < 3
          /\ tx' = [tx EXCEPT ![p].st = "Done", ![p].listed = FALSE]
          /\ rx' = [rx EXCEPT ![p].st = "Done"]
          /\ bll' = [bll EXCEPT ![p] = <<>>]
          /\ AllWell
          /\ UNCHANGED <<eob, messages, batch>>
       \/ /\ BothEOB(p) /\ messages[p] >= 3
          /\ IF rx[p].st = "ReceD" THEN Happens("cut") ELSE AllWell
          /\ NewBatch(p)
       \/ /\ ~BothEOB(p) /\ tx[p].listed
          /\ bll' = [bll EXCEPT ![p] = <<>>]
          /\ tx' = [tx EXCEPT ![p].listed = FALSE]
          /\ AllWell
          /\ UNCHANGED <<rx, eob, messages, batch>>
    /\ ft' = [ft EXCEPT ![p] = "Switch"]
    /\ UNCHANGED <<fileVars, line, chan, rc, tql, session>>

\* TxWLA otherwise: wait for answers.
TxWait(p) == /\ ft[p] = "Transmit" /\ tx[p].st = "WLA" /\ tql[p] = <<>>
             /\ \/ Pending(p)
                \/ ~BothEOB(p) /\ ~tx[p].listed
             /\ ft' = [ft EXCEPT ![p] = "Switch"]
             /\ UNCHANGED <<fileVars, line, chan, rc, rx, tx, bll, tql, eob, messages, batch,
                            session, faults>>

\* DeinitTransfer: the session is over for this side, which hangs up.
End(p) == /\ ft[p] = "Deinit" \/ (Switches(p) /\ Finished(p))
          /\ ft' = [ft EXCEPT ![p] = "Done"]
          /\ rx' = [rx EXCEPT ![p] = RxIdle] /\ tx' = [tx EXCEPT ![p] = TxIdle]
          /\ bll' = [bll EXCEPT ![p] = <<>>] /\ tql' = [tql EXCEPT ![p] = <<>>]
          /\ eob' = [eob EXCEPT ![p] = NoEOB]
          /\ messages' = [messages EXCEPT ![p] = 0]
          /\ batch' = [batch EXCEPT ![p] = 0]
          /\ chan' = [chan EXCEPT ![p] = <<>>]
          /\ UNCHANGED <<fileVars, line, rc, session, faults>>

\* The timer is looked at only when there is nothing to read and no room to
\* write: a silent line is noticed when the output is stuck.
Expire(p) == /\ Switches(p) /\ ~Finished(p)
             /\ line = "silent" /\ ~Room(p)
             /\ Broken(p)
             /\ UNCHANGED <<fileVars, line, chan, rx, tx, bll, tql, eob, messages, batch,
                            session, faults>>

Transmitter(p) == \/ TxNext(p) \/ TxBlock(p) \/ TxMessages(p) \/ TxMessage(p)
                  \/ TxAnswered(p) \/ TxWait(p) \/ End(p) \/ Expire(p)

-----------------------------------------------------------------------------
(* The connection, and the time between sessions *)

Alive == \E p \in Peers : ft[p] # "Done"

LineDrops == /\ Alive /\ line # "down" /\ \A p \in Peers : ~Turn(p)
             /\ line = "up" => Fails("fault")
             /\ line = "silent" => AllWell
             /\ line' = "down"
             /\ chan' = [p \in Peers |-> <<>>]
             /\ UNCHANGED <<fileVars, peerVars, session>>

LineSilent == /\ Alive /\ line = "up" /\ \A p \in Peers : ~Turn(p)
              /\ Fails("fault")
              /\ line' = "silent"
              /\ UNCHANGED <<fileVars, chan, peerVars, session>>

\* Bound: sessions.
NewSession == /\ ~Alive /\ session < MaxSession /\ outbound # {}
              /\ session' = session + 1
              /\ NewSessionState
              /\ UNCHANGED <<fileVars, faults>>

\* Between two sessions a file is replaced by one of the same name, after
\* something of the old one was received.
Changes(f) == /\ ~Alive /\ f \in outbound /\ version[f] = 1
              /\ session < MaxSession /\ tmp[f] \o inbound[f] # <<>>
              /\ Happens("changed")
              /\ version' = [version EXCEPT ![f] = 2]
              /\ UNCHANGED <<owner, outbound, tmp, inbound, line, chan, peerVars, session>>

Next == \/ \E p \in Peers : Receiver(p) \/ Transmitter(p)
        \/ LineDrops \/ LineSilent \/ NewSession
        \/ \E f \in Files : Changes(f)

Spec == Init /\ [][Next]_vars

\* What is sent arrives while the line is up, and both programs run.
Fairness == \A p \in Peers : SF_vars(Receiver(p)) /\ WF_vars(Transmitter(p))

FairSpec == Spec /\ Fairness

-----------------------------------------------------------------------------
(* Properties *)

TypeOK ==
    /\ outbound \subseteq Files /\ version \in [Files -> Versions]
    /\ line \in {"up", "silent", "down"}
    /\ \A p \in Peers :
          /\ ft[p] \in {"Switch", "Transmit", "Process", "Deinit", "Done"}
          /\ rc[p] \in {"ok", "failed"}
          /\ rx[p].st \in {"WaitF", "ReceD", "Done"}
          /\ rx[p].fp \in Files \cup {NoFile}
          /\ rx[p].st = "ReceD" => rx[p].fp # NoFile /\ rx[p].pos < Blocks[rx[p].file][rx[p].ver]
          /\ tx[p].st \in {"GNF", "TryR", "WLA", "Done"}
          /\ tx[p].st = "TryR" => tx[p].cur \in DOMAIN bll[p]
          /\ batch[p] \in 0..MaxBatch

Received(f) == inbound[f] = Content(f, version[f])
Place(f) == CASE f \in outbound /\ Received(f)  -> "both"
              [] f \in outbound /\ ~Received(f) -> "outbound"
              [] f \notin outbound /\ Received(f) -> "inbound"
              [] OTHER -> IF tmp[f] = Content(f, version[f]) THEN "stranded" ELSE "lost"
\* The receiver keeps a part of f with data of another file in it: of the one
\* that had its name before, or of one that was written to the open part of f.
Foreign(f) == \E x \in ToSet(tmp[f]) : x # <<f, version[f]>>
MoveFailed == \E n \in 1..MaxSession : <<"move", n>> \in faults

T == INSTANCE Transfer WITH
        place    <- [f \in Files |-> Place(f)],
        failed   <- IF MoveFailed THEN Files ELSE {},
        foreign  <- {f \in Files : Foreign(f)}

\* A file the sender disposes of (M_GOT, got 2614-2646) is complete in the
\* receiver's inbound, through broken, repeated and resumed sessions and
\* answers that cross the data; unless it could not be moved there, or the
\* receiver keeps a part of its length that holds the data of another file.
\* Of such a part the code looks at the length alone (1249-1257): the file may
\* have been replaced, or another one was resumed into it, for that was offered
\* from the offset of the file asked for last (1210-1222).
ImplementsTransfer == T!Spec

\* Nothing has gone wrong in this session and nothing was resumed in it.
Clean == \A kind \in Kinds : <<kind, session>> \notin faults

\* Such a session ends the same way on both sides, when there is nothing left
\* to send: neither side takes the end of a batch for the end of the
\* session, or the other way round (1119-1144, 1799-1830).
CleanEnd == ~Alive /\ Clean => rc = [p \in Peers |-> "ok"] /\ outbound = {}

Inv == TypeOK /\ CleanEnd

\* A file that M_GET has interrupted while it was being sent: no answer about
\* it is ever going to come (2595-2603).
Abandoned == \E p \in Peers : \E i \in DOMAIN bll[p] \ {tx[p].cur} : bll[p][i].st = "Sending"

\* A file the other side has stopped to receive, for its transmitter began a
\* new batch: the M_EOB that came before the file was asked for from an offset
\* was taken for the end of the batch (1810-1822).
Ignored == /\ <<"cut", session>> \in faults
           /\ \E p \in Peers : \E i \in DOMAIN bll[p] : bll[p][i].st = "IsSent"

\* Every session comes to an end on both sides, except on a line that has
\* fallen silent, for the timer is not looked at (1014-1019), and with a file
\* that was abandoned or ignored, for which both sides wait.
SessionEnds == <>[](~Alive \/ line = "silent" \/ Abandoned \/ Ignored)
=============================================================================
