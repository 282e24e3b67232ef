-------------------------- MODULE RemoteFileProofs ---------------------------
(***************************************************************************)
(* Files that are copied between the host and CP/M, for records, files and *)
(* numbers of copies of every size: a program that fails has changed no    *)
(* file, no handle is forgotten that still has something to write, a       *)
(* program that ends has moved the whole file, and what WRITE wrote READ   *)
(* brings back.                                                            *)
(*                                                                         *)
(* None of them is inductive.  The first two need the places of the        *)
(* programs at which nothing has changed yet, and those at which fh may be *)
(* a writer (Inv).  The others need how far each loop is: READ has the     *)
(* records up to cr in place and has read the host's file up to them,      *)
(* WRITE has their bytes in the host's file and in stdio's buffer together *)
(* (CopyInv).                                                              *)
(***************************************************************************)
EXTENDS RemoteFile, SequenceTheorems, TLAPS

Reader == {h \in Handle : h.mode = "r"}

\* A handle counts as one of those that the process may have.
HandlesTyped ==
  /\ fh \in Handle /\ (fh = Null \/ fh.mode # "null")
  /\ forgotten \in Seq(Reader)
  /\ Len(forgotten) <= OpenMax /\ (fh # Null => Len(forgotten) < OpenMax)

FilesTyped ==
  /\ host \in [Path -> Seq(Byte) \cup {Absent}] /\ denied \subseteq Path
  /\ cpm \in Seq(Record) \cup {Absent} /\ cr \in Nat /\ buf \in Record
  /\ HandlesTyped

ProgramTyped ==
  /\ d0 \in {OK, Done, Error}
  /\ pc \in Places /\ message \in {"", "remote", "local"}
  /\ job \in [op : {"none", "read", "write"}, host : [Path -> Seq(Byte) \cup {Absent}],
              cpm : Seq(Record) \cup {Absent}]
  /\ written \in Seq(Record) \cup {Absent} /\ faulty \in BOOLEAN
  /\ copies \in Nat

\* Only the loop of WRITE and its end have the host's file open for writing.
WriterInPlace ==
  fh.mode = "w" =>
    /\ pc \in {"readseq", "rwrite", "rclose"}
    /\ fh.path = "upper" /\ host["upper"] # Absent

\* In the loop of READ the local file is there and has all records up to cr.
LocalInPlace == pc \in {"rread", "writeseq"} => cpm # Absent /\ cr <= Len(cpm)

\* Until all files are open, and when one cannot be, nothing has changed; then there
\* is no more to fail with a message.
UnchangedSoFar ==
  /\ pc \in {"ropen", "open", "make", "lopen", "ropenw"} => host = job.host /\ cpm = job.cpm
  /\ pc \notin {"idle", "off"} => message = ""
  /\ FailureChangesNothing

Inv == FilesTyped /\ ProgramTyped /\ WriterInPlace /\ LocalInPlace /\ UnchangedSoFar

------------------------------------------------------------------------------
(* The services. *)

LEMMA NullIsHandle == Null \in Handle /\ Null.mode = "null"
<1>1. <<>> \in Seq(Byte)
  OBVIOUS
<1> QED BY <1>1 DEF Null, Handle, Modes, Path

LEMMA ForgetKeepsReaders ==
  ASSUME HandlesTyped, fh.mode # "w", Forget
  PROVE  forgotten' \in Seq(Reader) /\ Len(forgotten') <= OpenMax
<1>1. CASE fh = Null
  BY <1>1 DEF Forget, HandlesTyped
<1>2. CASE fh # Null
  <2>1. fh \in Reader
    BY <1>2 DEF Reader, HandlesTyped, Modes, Handle
  <2>2. forgotten' = Append(forgotten, fh) /\ Len(forgotten) < OpenMax
    BY <1>2 DEF Forget, HandlesTyped
  <2>3. Len(forgotten) \in Nat
    BY LenProperties DEF HandlesTyped
  <2> QED BY <2>1, <2>2, <2>3, BoundAssumption, AppendProperties DEF HandlesTyped
<1> QED BY <1>1, <1>2

\* What both opens leave.
LEMMA OpenedIsTyped ==
  ASSUME HandlesTyped, fh.mode # "w", Forget, NEW m \in {"r", "w"}, NEW p \in Path,
         (CanOpen(p) /\ Opened(m, p)) \/ NotOpened
  PROVE  /\ HandlesTyped' /\ d0' \in {OK, Error}
         /\ fh'.mode = "w" => m = "w" /\ fh'.path = p /\ d0' = OK
<1>1. forgotten' \in Seq(Reader) /\ Len(forgotten') <= OpenMax
  BY ForgetKeepsReaders
<1>2. CASE CanOpen(p) /\ Opened(m, p)
  <2>1. fh' = [mode |-> m, path |-> p, pos |-> 0, held |-> <<>>] /\ d0' = OK
    BY <1>2 DEF Opened
  <2>2. fh' \in Handle /\ fh'.mode = m /\ fh'.path = p
    <3>1. <<>> \in Seq(Byte)
      OBVIOUS
    <3> QED BY <2>1, <3>1 DEF Handle, Modes
  <2>3. Len(forgotten') < OpenMax
    BY <1>2 DEF CanOpen
  <2>4. fh'.mode # "null"
    BY <2>2
  <2> QED BY <1>1, <2>1, <2>2, <2>3, <2>4 DEF HandlesTyped
<1>3. CASE NotOpened
  <2>1. fh' = Null /\ d0' = Error
    BY <1>3 DEF NotOpened
  <2> QED BY <1>1, <2>1, NullIsHandle DEF HandlesTyped
<1> QED BY <1>2, <1>3

LEMMA FillIsRecord ==
  ASSUME NEW bytes \in Seq(Byte), NEW old
  PROVE  Fill(bytes, old) \in Record
<1>1. \A i \in 1 .. RecordSize : i <= Len(bytes) => bytes[i] \in Byte
  <2> TAKE i \in 1 .. RecordSize
  <2> HAVE i <= Len(bytes)
  <2>1. i \in 1 .. Len(bytes)
    BY ByteAssumption, LenProperties
  <2> QED BY <2>1, ElementOfSeq
<1> QED BY <1>1, ByteAssumption DEF Fill, Record

LEMMA RestIsSeq ==
  ASSUME FilesTyped
  PROVE  Rest \in Seq(Byte)
<1>1. CASE fh.mode # "r" \/ host[fh.path] = Absent
  BY <1>1 DEF Rest
<1>2. CASE ~(fh.mode # "r" \/ host[fh.path] = Absent)
  <2>1. fh.path \in Path /\ fh.pos \in Nat
    BY DEF FilesTyped, HandlesTyped, Handle
  <2>2. host[fh.path] \in Seq(Byte)
    BY <1>2, <2>1 DEF FilesTyped
  <2>3. \A n \in 1 .. Len(host[fh.path]) : host[fh.path][n] \in Byte
    BY <2>2
  <2>4. Rest = SubSeq(host[fh.path], fh.pos + 1, Len(host[fh.path]))
    BY <1>2 DEF Rest
  <2>5. fh.pos + 1 \in Nat \ {0} /\ Len(host[fh.path]) \in Nat
    BY <2>1, <2>2
  <2> QED BY <2>2, <2>4, <2>5, SubSeqProperties
<1> QED BY <1>1, <1>2

LEMMA RemoteReadIsTyped ==
  ASSUME FilesTyped, faulty \in BOOLEAN, RemoteRead
  PROVE  /\ HandlesTyped' /\ buf' \in Record /\ d0' \in {OK, Done, Error}
         /\ faulty' \in BOOLEAN /\ host' = host
         /\ fh'.mode = fh.mode /\ fh'.path = fh.path
<1> DEFINE all == Smaller(Len(Rest), RecordSize)
<1>0. HandlesTyped /\ fh \in Handle
  BY DEF FilesTyped, HandlesTyped
<1>1. CASE fh = Null
  BY <1>0, <1>1 DEF RemoteRead, FilesTyped, HandlesTyped
<1>2. CASE fh # Null
  <2>1. PICK n \in 0 .. all :
          /\ d0' = IF n = 0 THEN Done ELSE OK
          /\ buf' = IF n = 0 THEN buf ELSE Fill(SubSeq(Rest, 1, n), buf)
          /\ fh' = [fh EXCEPT !.pos = @ + n]
          /\ faulty' = (faulty \/ n < all)
    BY <1>2 DEF RemoteRead
  <2>2. Rest \in Seq(Byte) /\ Len(Rest) \in Nat
    BY RestIsSeq, LenProperties
  <2>3. all \in Nat /\ all <= Len(Rest) /\ n \in Nat /\ n <= Len(Rest)
    BY <2>2, ByteAssumption DEF Smaller
  <2> HIDE DEF all
  <2>4. SubSeq(Rest, 1, n) \in Seq(Byte)
    <3>1. \A i \in 1 .. n : Rest[i] \in Byte
      BY <2>2, <2>3, ElementOfSeq
    <3> QED BY <2>3, <3>1, SubSeqProperties
  <2>5. buf' \in Record
    BY <2>1, <2>4, FillIsRecord DEF FilesTyped
  <2>6. /\ fh' \in Handle /\ fh'.mode = fh.mode /\ fh'.path = fh.path
    BY <1>0, <2>1, <2>3 DEF Handle
  <2>7. fh' # Null
    BY <1>0, <1>2, <2>6, NullIsHandle DEF HandlesTyped
  <2>8. HandlesTyped'
    BY <1>0, <1>2, <2>6, <2>7 DEF HandlesTyped, RemoteRead
  <2>9. faulty' \in BOOLEAN
    BY <2>1
  <2> QED BY <2>1, <2>5, <2>6, <2>8, <2>9 DEF RemoteRead
<1> QED BY <1>1, <1>2

LEMMA RemoteWriteIsTyped ==
  ASSUME FilesTyped, RemoteWrite
  PROVE  /\ HandlesTyped' /\ d0' \in {OK, Error} /\ host' = host
         /\ fh'.mode = fh.mode /\ fh'.path = fh.path /\ buf' = buf /\ faulty' = faulty
<1>1. fh \in Handle /\ HandlesTyped
  BY DEF FilesTyped, HandlesTyped
<1>2. buf \in Seq(Byte)
  BY ByteAssumption DEF FilesTyped, Record
<1>3. CASE fh.mode = "w"
  <2>1. fh' = [fh EXCEPT !.held = @ \o buf]
    BY <1>3 DEF RemoteWrite
  <2>2. fh.held \o buf \in Seq(Byte)
    BY <1>1, <1>2, ConcatProperties DEF Handle
  <2>3. fh' \in Handle /\ fh'.mode = fh.mode /\ fh'.path = fh.path
    BY <1>1, <2>1, <2>2 DEF Handle
  <2>4. fh # Null /\ fh' # Null
    BY <1>3, <2>3, NullIsHandle
  <2> QED BY <1>1, <1>3, <2>3, <2>4 DEF RemoteWrite, HandlesTyped
<1>4. CASE fh.mode # "w"
  BY <1>1, <1>4 DEF RemoteWrite, HandlesTyped
<1> QED BY <1>3, <1>4

\* What stdio writes only changes the file that is open for writing.
LEMMA FlushedIsTyped ==
  ASSUME FilesTyped, WriterInPlace, faulty \in BOOLEAN, Flushed
  PROVE  /\ host' \in [Path -> Seq(Byte) \cup {Absent}] /\ faulty' \in BOOLEAN
         /\ fh.mode # "w" => host' = host
         /\ host["upper"] # Absent => host'["upper"] # Absent
<1>1. CASE fh.mode # "w"
  BY <1>1 DEF Flushed, FilesTyped
<1>2. CASE fh.mode = "w"
  <2>1. PICK n \in 0 .. Len(fh.held) :
          /\ host' = [host EXCEPT !["upper"] = @ \o SubSeq(fh.held, 1, n)]
          /\ faulty' = (faulty \/ n < Len(fh.held))
    BY <1>2 DEF Flushed, WriterInPlace
  <2>2. host["upper"] \in Seq(Byte)
    BY <1>2 DEF WriterInPlace, FilesTyped, Path
  <2>3. fh.held \in Seq(Byte)
    BY DEF FilesTyped, HandlesTyped, Handle
  <2>4. SubSeq(fh.held, 1, n) \in Seq(Byte)
    <3>1. \A i \in 1 .. n : fh.held[i] \in Byte
      BY <2>3, ElementOfSeq, LenProperties
    <3> QED BY <3>1, SubSeqProperties
  <2>5. host["upper"] \o SubSeq(fh.held, 1, n) \in Seq(Byte)
    BY <2>2, <2>4, ConcatProperties
  <2>6. host' \in [Path -> Seq(Byte) \cup {Absent}]
        /\ host'["upper"] = host["upper"] \o SubSeq(fh.held, 1, n)
    BY <2>1, <2>5 DEF FilesTyped, Path
  <2> QED BY <1>2, <2>1, <2>5, <2>6, ContentAssumption
<1> QED BY <1>1, <1>2

LEMMA LocalWriteIsTyped ==
  ASSUME FilesTyped, cpm # Absent, cr <= Len(cpm), LocalWrite, faulty \in BOOLEAN
  PROVE  /\ cpm' \in Seq(Record) /\ cr' \in Nat /\ cr' <= Len(cpm')
         /\ d0' \in {OK, Error} /\ faulty' \in BOOLEAN
<1>1. cpm \in Seq(Record) /\ Len(cpm) \in Nat /\ cr \in Nat /\ buf \in Record
  BY LenProperties DEF FilesTyped
<1>2. CASE d0' = Error /\ faulty' = TRUE /\ UNCHANGED local
  BY <1>1, <1>2 DEF local
<1>3. CASE /\ d0' = OK
           /\ cpm' = [k \in 1 .. (IF cr < Len(cpm) THEN Len(cpm) ELSE cr + 1) |->
                        IF k = cr + 1 THEN buf ELSE cpm[k]]
           /\ cr' = cr + 1
           /\ UNCHANGED faulty
  <2> DEFINE n == IF cr < Len(cpm) THEN Len(cpm) ELSE cr + 1
  <2>1. n \in Nat /\ cr + 1 <= n
    BY <1>1
  <2>2. \A k \in 1 .. n : k # cr + 1 => k \in 1 .. Len(cpm)
    BY <1>1
  <2>3. \A k \in 1 .. n : k # cr + 1 => cpm[k] \in Record
    BY <1>1, <2>2, ElementOfSeq
  <2>4. cpm' \in [1 .. n -> Record]
    BY <1>1, <1>3, <2>3
  <2> HIDE DEF n
  <2>5. cpm' \in Seq(Record) /\ Len(cpm') = n
    BY <2>1, <2>4
  <2> QED BY <1>1, <1>3, <2>1, <2>5
<1> QED BY <1>2, <1>3 DEF LocalWrite

LEMMA LocalReadIsTyped ==
  ASSUME FilesTyped, LocalRead
  PROVE  /\ buf' \in Record /\ cr' \in Nat /\ cpm' = cpm /\ d0' \in {OK, Done}
<1>1. CASE cpm # Absent /\ cr < Len(cpm)
  <2>1. cpm \in Seq(Record) /\ cr \in Nat
    BY <1>1 DEF FilesTyped
  <2>2. cr + 1 \in 1 .. Len(cpm)
    BY <1>1, <2>1, LenProperties
  <2> QED BY <1>1, <2>1, <2>2, ElementOfSeq DEF LocalRead
<1>2. CASE ~(cpm # Absent /\ cr < Len(cpm))
  BY <1>2 DEF LocalRead, FilesTyped
<1> QED BY <1>1, <1>2

------------------------------------------------------------------------------
(* The steps of READ and WRITE. *)

LEMMA StartInv ==
  ASSUME Inv, StartRead \/ StartWrite
  PROVE  Inv'
<1> PICK program, first : /\ program \in {"read", "write"} /\ first \in {"ropen", "lopen"}
                          /\ Start(program, first)
  BY DEF StartRead, StartWrite
<1>1. FilesTyped'
  BY DEF Inv, Start, FilesTyped, HandlesTyped
<1>2. ProgramTyped'
  <2>1. job' \in [op : {"none", "read", "write"}, host : [Path -> Seq(Byte) \cup {Absent}],
                  cpm : Seq(Record) \cup {Absent}]
    BY DEF Inv, Start, FilesTyped
  <2>2. copies' = copies + 1 /\ copies \in Nat /\ pc' \in Places
        /\ message' = "" /\ d0' = d0 /\ written' = written
    BY DEF Inv, Start, ProgramTyped, Places
  <2>3. faulty' \in BOOLEAN
    BY Zenon DEF Start
  <2>4. copies' \in Nat
    <3>1. copies' = copies + 1 /\ copies \in Nat
      BY DEF Inv, ProgramTyped, Start
    <3> QED BY <3>1
  <2> QED BY <2>1, <2>2, <2>3, <2>4, Zenon DEF Inv, ProgramTyped
<1>3. WriterInPlace' /\ LocalInPlace'
  BY DEF Inv, Start, WriterInPlace, LocalInPlace
<1>4. UnchangedSoFar'
  BY DEF Start, UnchangedSoFar, FailureChangesNothing
<1> QED BY <1>1, <1>2, <1>3, <1>4 DEF Inv

LEMMA ReadOpensRemoteInv ==
  ASSUME Inv, ReadOpensRemote
  PROVE  Inv'
<1>0. pc = "ropen" /\ FilesTyped /\ ProgramTyped /\ WriterInPlace /\ UnchangedSoFar
      /\ fh.mode # "w" /\ HandlesTyped
  BY DEF Inv, ReadOpensRemote, WriterInPlace, FilesTyped
<1>1. /\ HandlesTyped' /\ d0' \in {OK, Error}
      /\ fh'.mode = "w" => "r" = "w" /\ fh'.path = ReadPath /\ d0' = OK
  <2>1. ReadPath \in Path
    BY DEF ReadPath, Path
  <2> QED BY <1>0, <2>1, OpenedIsTyped DEF ReadOpensRemote, OpenToRead
<1>2. /\ host' = host /\ denied' = denied /\ cpm' = cpm /\ cr' = cr /\ buf' = buf
      /\ faulty' = faulty /\ job' = job /\ written' = written /\ copies' = copies
  BY DEF ReadOpensRemote, OpenToRead, local, histories
<1>3. \/ pc' = "idle" /\ message' = "remote"
      \/ pc' = "open" /\ message' = message
  BY DEF ReadOpensRemote, GoOn
<1>4. FilesTyped' /\ ProgramTyped'
  BY <1>0, <1>1, <1>2, <1>3 DEF FilesTyped, ProgramTyped, Places
<1>5. WriterInPlace' /\ LocalInPlace'
  BY <1>1, <1>3 DEF WriterInPlace, LocalInPlace
<1>6. UnchangedSoFar'
  BY <1>0, <1>2, <1>3 DEF UnchangedSoFar, FailureChangesNothing
<1> QED BY <1>4, <1>5, <1>6 DEF Inv

LEMMA WriteOpensRemoteInv ==
  ASSUME Inv, WriteOpensRemote
  PROVE  Inv'
<1>0. pc = "ropenw" /\ FilesTyped /\ ProgramTyped /\ WriterInPlace /\ UnchangedSoFar
      /\ fh.mode # "w" /\ HandlesTyped
  BY DEF Inv, WriteOpensRemote, WriterInPlace, FilesTyped
<1>1. /\ HandlesTyped' /\ d0' \in {OK, Error}
      /\ fh'.mode = "w" => "w" = "w" /\ fh'.path = "upper" /\ d0' = OK
  <2>1. "upper" \in Path
    BY DEF Path
  <2>2. (CanOpen("upper") /\ Opened("w", "upper")) \/ NotOpened
    BY DEF WriteOpensRemote, OpenToWrite
  <2> QED BY <1>0, <2>1, <2>2, OpenedIsTyped DEF WriteOpensRemote, OpenToWrite
<1>2. /\ denied' = denied /\ cpm' = cpm /\ cr' = cr /\ buf' = buf
      /\ faulty' = faulty /\ job' = job /\ written' = written /\ copies' = copies
  BY DEF WriteOpensRemote, local, histories
<1>3. \/ d0' = OK /\ host' = [host EXCEPT !["upper"] = <<>>]
      \/ d0' = Error /\ host' = host
  BY DEF WriteOpensRemote, OpenToWrite, Opened, NotOpened
<1>4. /\ host' \in [Path -> Seq(Byte) \cup {Absent}]
      /\ d0' = OK => host'["upper"] # Absent
  <2>1. <<>> \in Seq(Byte)
    OBVIOUS
  <2>2. host \in [Path -> Seq(Byte) \cup {Absent}]
    BY <1>0 DEF FilesTyped
  <2>3. OK # Error
    BY DEF OK, Error
  <2> QED BY <1>3, <2>1, <2>2, <2>3, ContentAssumption DEF Path
<1>5. \/ pc' = "idle" /\ message' = "remote" /\ d0' = Error /\ host' = host
      \/ pc' = "readseq" /\ message' = message /\ d0' = OK
  BY <1>3 DEF WriteOpensRemote, GoOn, OK, Error
<1>6. FilesTyped' /\ ProgramTyped'
  BY <1>0, <1>1, <1>2, <1>4, <1>5 DEF FilesTyped, ProgramTyped, Places
<1>7. WriterInPlace' /\ LocalInPlace'
  BY <1>1, <1>4, <1>5 DEF WriterInPlace, LocalInPlace, OK, Error
<1>8. UnchangedSoFar'
  BY <1>0, <1>2, <1>5 DEF UnchangedSoFar, FailureChangesNothing
<1> QED BY <1>6, <1>7, <1>8 DEF Inv

LEMMA ReadOpensLocalInv ==
  ASSUME Inv, ReadOpensLocal
  PROVE  Inv'
<1>0. pc = "open" /\ FilesTyped /\ ProgramTyped /\ WriterInPlace /\ UnchangedSoFar
      /\ fh.mode # "w"
  BY DEF Inv, ReadOpensLocal, WriterInPlace
<1>1. /\ host' = host /\ denied' = denied /\ fh' = fh /\ forgotten' = forgotten
      /\ cpm' = cpm /\ buf' = buf /\ message' = message /\ faulty' = faulty
      /\ job' = job /\ written' = written /\ copies' = copies
  BY DEF ReadOpensLocal, LocalOpen, histories
<1>2. \/ d0' = Error /\ pc' = "make" /\ cr' = cr
      \/ d0' = OK /\ cpm # Absent /\ pc' = "rread" /\ cr' = 0
  BY DEF ReadOpensLocal, LocalOpen, OK, Error
<1>3. FilesTyped' /\ ProgramTyped'
  <2>1. cr' \in Nat
    BY <1>0, <1>2 DEF FilesTyped
  <2>2. d0' \in {OK, Done, Error} /\ pc' \in Places
    BY <1>2 DEF Places
  <2> QED BY <1>0, <1>1, <2>1, <2>2 DEF FilesTyped, HandlesTyped, ProgramTyped
<1>4. WriterInPlace' /\ LocalInPlace'
  <2>1. cpm # Absent => Len(cpm) \in Nat
    BY <1>0, LenProperties DEF FilesTyped
  <2> QED BY <1>0, <1>1, <1>2, <2>1 DEF WriterInPlace, LocalInPlace
<1>5. UnchangedSoFar'
  BY <1>0, <1>1, <1>2 DEF UnchangedSoFar, FailureChangesNothing
<1> QED BY <1>3, <1>4, <1>5 DEF Inv

LEMMA ReadMakesLocalInv ==
  ASSUME Inv, ReadMakesLocal
  PROVE  Inv'
<1>0. pc = "make" /\ FilesTyped /\ ProgramTyped /\ WriterInPlace /\ UnchangedSoFar
      /\ fh.mode # "w"
  BY DEF Inv, ReadMakesLocal, WriterInPlace
<1>1. /\ host' = host /\ denied' = denied /\ fh' = fh /\ forgotten' = forgotten
      /\ cr' = 0 /\ buf' = buf /\ faulty' = faulty
      /\ job' = job /\ written' = written /\ copies' = copies
  BY DEF ReadMakesLocal, histories
<1>2. \/ d0' = Error /\ pc' = "idle" /\ message' = "local" /\ cpm' = cpm
      \/ d0' = OK /\ pc' = "rread" /\ message' = message /\ cpm' = <<>>
  BY DEF ReadMakesLocal, LocalMake, GoOn, OK, Error
<1>3. <<>> \in Seq(Record) /\ Len(<<>>) = 0 /\ <<>> # Absent
  <2>1. <<>> \in Seq(Record) /\ Len(<<>>) = 0
    OBVIOUS
  <2> QED BY <2>1, ContentAssumption
<1>4. FilesTyped' /\ ProgramTyped'
  BY <1>0, <1>1, <1>2, <1>3 DEF FilesTyped, HandlesTyped, ProgramTyped, Places
<1>5. WriterInPlace' /\ LocalInPlace'
  BY <1>0, <1>1, <1>2, <1>3 DEF WriterInPlace, LocalInPlace
<1>6. UnchangedSoFar'
  BY <1>0, <1>1, <1>2 DEF UnchangedSoFar, FailureChangesNothing
<1> QED BY <1>4, <1>5, <1>6 DEF Inv

LEMMA WriteOpensLocalInv ==
  ASSUME Inv, WriteOpensLocal
  PROVE  Inv'
<1>0. pc = "lopen" /\ FilesTyped /\ ProgramTyped /\ WriterInPlace /\ UnchangedSoFar
      /\ fh.mode # "w"
  BY DEF Inv, WriteOpensLocal, WriterInPlace
<1>1. /\ host' = host /\ denied' = denied /\ fh' = fh /\ forgotten' = forgotten
      /\ cpm' = cpm /\ cr' = 0 /\ buf' = buf /\ faulty' = faulty
      /\ job' = job /\ written' = written /\ copies' = copies
  BY DEF WriteOpensLocal, LocalOpen, histories
<1>2. \/ d0' = Error /\ pc' = "idle" /\ message' = "local"
      \/ d0' = OK /\ pc' = "ropenw" /\ message' = message
  BY DEF WriteOpensLocal, LocalOpen, GoOn, OK, Error
<1>3. FilesTyped' /\ ProgramTyped'
  BY <1>0, <1>1, <1>2 DEF FilesTyped, HandlesTyped, ProgramTyped, Places
<1>4. WriterInPlace' /\ LocalInPlace'
  BY <1>0, <1>1, <1>2 DEF WriterInPlace, LocalInPlace
<1>5. UnchangedSoFar'
  BY <1>0, <1>1, <1>2 DEF UnchangedSoFar, FailureChangesNothing
<1> QED BY <1>3, <1>4, <1>5 DEF Inv

LEMMA ReadReadsInv ==
  ASSUME Inv, ReadReads
  PROVE  Inv'
<1>0. pc = "rread" /\ FilesTyped /\ ProgramTyped /\ WriterInPlace /\ LocalInPlace
      /\ UnchangedSoFar /\ fh.mode # "w"
  BY DEF Inv, ReadReads, WriterInPlace
<1>1. /\ HandlesTyped' /\ buf' \in Record /\ d0' \in {OK, Done, Error}
      /\ faulty' \in BOOLEAN /\ host' = host
      /\ fh'.mode = fh.mode
  BY <1>0, RemoteReadIsTyped DEF ReadReads, ProgramTyped
<1>2. /\ denied' = denied /\ cpm' = cpm /\ cr' = cr /\ message' = message
      /\ job' = job /\ written' = written /\ copies' = copies
      /\ pc' \in {"writeseq", "rclose"}
  BY DEF ReadReads, local, histories
<1>3. FilesTyped' /\ ProgramTyped'
  <2>1. pc' \in Places
    BY <1>2 DEF Places
  <2> QED BY <1>0, <1>1, <1>2, <2>1 DEF FilesTyped, ProgramTyped
<1>4. WriterInPlace' /\ LocalInPlace'
  BY <1>0, <1>1, <1>2 DEF WriterInPlace, LocalInPlace
<1>5. UnchangedSoFar'
  BY <1>0, <1>1, <1>2 DEF UnchangedSoFar, FailureChangesNothing
<1> QED BY <1>3, <1>4, <1>5 DEF Inv

LEMMA ReadWritesInv ==
  ASSUME Inv, ReadWrites
  PROVE  Inv'
<1>0. pc = "writeseq" /\ FilesTyped /\ ProgramTyped /\ WriterInPlace /\ LocalInPlace
      /\ UnchangedSoFar /\ fh.mode # "w"
  BY DEF Inv, ReadWrites, WriterInPlace
<1>1. /\ cpm' \in Seq(Record) /\ cr' \in Nat /\ cr' <= Len(cpm')
      /\ d0' \in {OK, Error} /\ faulty' \in BOOLEAN
  BY <1>0, LocalWriteIsTyped DEF ReadWrites, LocalInPlace, ProgramTyped
<1>2. /\ host' = host /\ denied' = denied /\ fh' = fh /\ forgotten' = forgotten
      /\ buf' = buf /\ message' = message /\ pc' = "rread"
      /\ job' = job /\ written' = written /\ copies' = copies
  BY DEF ReadWrites, histories
<1>3. FilesTyped' /\ ProgramTyped'
  BY <1>0, <1>1, <1>2 DEF FilesTyped, HandlesTyped, ProgramTyped, Places
<1>4. WriterInPlace' /\ LocalInPlace'
  BY <1>0, <1>1, <1>2, ContentAssumption DEF WriterInPlace, LocalInPlace
<1>5. UnchangedSoFar'
  BY <1>0, <1>2 DEF UnchangedSoFar, FailureChangesNothing
<1> QED BY <1>3, <1>4, <1>5 DEF Inv

LEMMA WriteReadsInv ==
  ASSUME Inv, WriteReads
  PROVE  Inv'
<1>0. pc = "readseq" /\ FilesTyped /\ ProgramTyped /\ WriterInPlace /\ UnchangedSoFar
  BY DEF Inv, WriteReads
<1>1. buf' \in Record /\ cr' \in Nat /\ cpm' = cpm /\ d0' \in {OK, Done}
  BY <1>0, LocalReadIsTyped DEF WriteReads
<1>2. /\ host' = host /\ denied' = denied /\ fh' = fh /\ forgotten' = forgotten
      /\ message' = message /\ faulty' = faulty
      /\ job' = job /\ written' = written /\ copies' = copies
      /\ pc' \in {"rwrite", "rclose"}
  BY DEF WriteReads, histories
<1>3. FilesTyped' /\ ProgramTyped'
  <2>1. pc' \in Places
    BY <1>2 DEF Places
  <2> QED BY <1>0, <1>1, <1>2, <2>1 DEF FilesTyped, HandlesTyped, ProgramTyped
<1>4. WriterInPlace' /\ LocalInPlace'
  BY <1>0, <1>2 DEF WriterInPlace, LocalInPlace
<1>5. UnchangedSoFar'
  BY <1>0, <1>2 DEF UnchangedSoFar, FailureChangesNothing
<1> QED BY <1>3, <1>4, <1>5 DEF Inv

LEMMA WriteWritesInv ==
  ASSUME Inv, WriteWrites
  PROVE  Inv'
<1>0. pc = "rwrite" /\ FilesTyped /\ ProgramTyped /\ WriterInPlace /\ UnchangedSoFar
  BY DEF Inv, WriteWrites
<1>1. /\ HandlesTyped' /\ d0' \in {OK, Error} /\ host' = host
      /\ fh'.mode = fh.mode /\ fh'.path = fh.path /\ buf' = buf /\ faulty' = faulty
  BY <1>0, RemoteWriteIsTyped DEF WriteWrites
<1>2. /\ denied' = denied /\ cpm' = cpm /\ cr' = cr /\ message' = message
      /\ job' = job /\ written' = written /\ copies' = copies /\ pc' = "readseq"
  BY DEF WriteWrites, local, histories
<1>3. FilesTyped' /\ ProgramTyped'
  BY <1>0, <1>1, <1>2 DEF FilesTyped, ProgramTyped, Places
<1>4. WriterInPlace' /\ LocalInPlace'
  BY <1>0, <1>1, <1>2 DEF WriterInPlace, LocalInPlace
<1>5. UnchangedSoFar'
  BY <1>0, <1>2 DEF UnchangedSoFar, FailureChangesNothing
<1> QED BY <1>3, <1>4, <1>5 DEF Inv

LEMMA EndInv ==
  ASSUME Inv, End
  PROVE  Inv'
<1>0. pc = "rclose" /\ FilesTyped /\ ProgramTyped /\ WriterInPlace /\ UnchangedSoFar
      /\ Flushed /\ message = ""
  BY DEF Inv, End, RemoteClose, UnchangedSoFar
<1>1. host' \in [Path -> Seq(Byte) \cup {Absent}] /\ faulty' \in BOOLEAN
  BY <1>0, FlushedIsTyped DEF ProgramTyped
<1>2. /\ denied' = denied /\ fh' = Null /\ forgotten' = forgotten
      /\ cpm' = cpm /\ cr' = cr /\ buf' = buf /\ d0' = d0 /\ message' = message
      /\ job' = job /\ copies' = copies /\ pc' = "idle"
      /\ written' \in {written, Absent, cpm}
  BY DEF End, RemoteClose, WrittenBy, local
<1>3. FilesTyped' /\ ProgramTyped'
  <2>1. HandlesTyped'
    BY <1>0, <1>2, NullIsHandle DEF FilesTyped, HandlesTyped
  <2>2. written' \in Seq(Record) \cup {Absent}
    BY <1>0, <1>2 DEF FilesTyped, ProgramTyped
  <2>3. pc' \in Places
    BY <1>2 DEF Places
  <2> QED BY <1>0, <1>1, <1>2, <2>1, <2>2, <2>3 DEF FilesTyped, ProgramTyped
<1>4. WriterInPlace' /\ LocalInPlace'
  BY <1>2, NullIsHandle DEF WriterInPlace, LocalInPlace
<1>5. UnchangedSoFar'
  BY <1>0, <1>2 DEF UnchangedSoFar, FailureChangesNothing
<1> QED BY <1>3, <1>4, <1>5 DEF Inv

------------------------------------------------------------------------------
(* What happens beside them. *)

LEMMA StdioFlushesInv ==
  ASSUME Inv, StdioFlushes
  PROVE  Inv'
<1>0. FilesTyped /\ ProgramTyped /\ WriterInPlace /\ LocalInPlace /\ UnchangedSoFar
      /\ Flushed /\ fh \in Handle /\ HandlesTyped /\ fh.held # <<>>
  BY DEF Inv, StdioFlushes, FilesTyped, HandlesTyped
<1>1. /\ host' \in [Path -> Seq(Byte) \cup {Absent}] /\ faulty' \in BOOLEAN
      /\ fh.mode # "w" => host' = host
      /\ host["upper"] # Absent => host'["upper"] # Absent
  BY <1>0, FlushedIsTyped DEF ProgramTyped
<1>2. /\ denied' = denied /\ forgotten' = forgotten
      /\ cpm' = cpm /\ cr' = cr /\ buf' = buf /\ d0' = d0 /\ message' = message
      /\ job' = job /\ copies' = copies /\ pc' = pc /\ written' = written
  BY DEF StdioFlushes, local, histories
<1>3. fh' \in Handle /\ fh'.mode = fh.mode /\ fh'.path = fh.path
  <2>1. <<>> \in Seq(Byte)
    OBVIOUS
  <2> QED BY <1>0, <2>1 DEF StdioFlushes, Handle
<1>4. fh # Null
  BY <1>0 DEF Null
<1>5. FilesTyped' /\ ProgramTyped'
  <2>1. HandlesTyped'
    BY <1>0, <1>2, <1>3, <1>4 DEF HandlesTyped
  <2> QED BY <1>0, <1>1, <1>2, <2>1 DEF FilesTyped, ProgramTyped
<1>6. WriterInPlace' /\ LocalInPlace'
  BY <1>0, <1>1, <1>2, <1>3 DEF WriterInPlace, LocalInPlace
<1>7. UnchangedSoFar'
  <2>1. pc \in {"idle", "ropen", "open", "make", "lopen", "ropenw"} => host' = host
    BY <1>0, <1>1 DEF WriterInPlace
  <2> QED BY <1>0, <1>2, <2>1 DEF UnchangedSoFar, FailureChangesNothing
<1> QED BY <1>5, <1>6, <1>7 DEF Inv

LEMMA StopInv ==
  ASSUME Inv, Quit \/ Kill
  PROVE  Inv'
<1>0. FilesTyped /\ ProgramTyped /\ WriterInPlace /\ UnchangedSoFar
  BY DEF Inv
<1>1. host' \in [Path -> Seq(Byte) \cup {Absent}] /\ faulty' \in BOOLEAN
  <2>1. CASE Quit
    BY <1>0, <2>1, FlushedIsTyped DEF Quit, ProgramTyped
  <2>2. CASE Kill
    BY <1>0, <2>2 DEF Kill, files, FilesTyped, ProgramTyped
  <2> QED BY <2>1, <2>2
<1>2. /\ denied' = denied /\ fh' = Null /\ forgotten' = forgotten
      /\ cpm' = cpm /\ cr' = cr /\ buf' = buf /\ d0' = d0 /\ message' = message
      /\ job' = job /\ copies' = copies /\ pc' = "off" /\ written' = written
  BY DEF Quit, Kill, files, local, histories
<1>3. FilesTyped' /\ ProgramTyped'
  <2>1. HandlesTyped'
    BY <1>0, <1>2, NullIsHandle DEF FilesTyped, HandlesTyped
  <2>2. pc' \in Places
    BY <1>2 DEF Places
  <2> QED BY <1>0, <1>1, <1>2, <2>1, <2>2 DEF FilesTyped, ProgramTyped
<1>4. WriterInPlace' /\ LocalInPlace' /\ UnchangedSoFar'
  BY <1>2, NullIsHandle DEF WriterInPlace, LocalInPlace, UnchangedSoFar, FailureChangesNothing
<1> QED BY <1>3, <1>4 DEF Inv

LEMMA EditInv ==
  ASSUME Inv,
         \/ \E p \in Path, content \in HostContent \cup {Absent} : HostEdit(p, content)
         \/ \E content \in CpmContent \cup {Absent} : CpmEdit(content)
  PROVE  Inv'
<1>0. pc = "idle" /\ FilesTyped /\ ProgramTyped /\ WriterInPlace
  BY DEF Inv, HostEdit, CpmEdit
<1>1. /\ host' \in [Path -> Seq(Byte) \cup {Absent}] /\ cpm' \in Seq(Record) \cup {Absent}
      /\ written' \in Seq(Record) \cup {Absent}
  <2>1. ASSUME NEW p \in Path, NEW content \in HostContent \cup {Absent}, HostEdit(p, content)
        PROVE  host' \in [Path -> Seq(Byte) \cup {Absent}] /\ cpm' = cpm
               /\ written' \in {Absent, written}
    <3>1. content \in Seq(Byte) \cup {Absent}
      BY ContentAssumption
    <3> QED BY <1>0, <2>1, <3>1 DEF HostEdit, local, FilesTyped
  <2>2. ASSUME NEW content \in CpmContent \cup {Absent}, CpmEdit(content)
        PROVE  host' = host /\ cpm' \in Seq(Record) \cup {Absent} /\ written' = written
    BY <2>2, ContentAssumption DEF CpmEdit
  <2> QED BY <1>0, <2>1, <2>2 DEF FilesTyped, ProgramTyped
<1>2. /\ denied' = denied /\ fh' = fh /\ forgotten' = forgotten
      /\ cr' = cr /\ buf' = buf /\ d0' = d0 /\ message' = message
      /\ copies' = copies /\ pc' = pc /\ faulty' = faulty
      /\ job' = [job EXCEPT !.op = "none"]
  BY DEF HostEdit, CpmEdit, local
<1>3. FilesTyped' /\ ProgramTyped'
  <2>1. job' \in [op : {"none", "read", "write"}, host : [Path -> Seq(Byte) \cup {Absent}],
                  cpm : Seq(Record) \cup {Absent}]
    BY <1>0, <1>2 DEF ProgramTyped
  <2> QED BY <1>0, <1>1, <1>2, <2>1 DEF FilesTyped, HandlesTyped, ProgramTyped
<1>4. WriterInPlace' /\ LocalInPlace'
  BY <1>0, <1>2 DEF WriterInPlace, LocalInPlace
<1>5. UnchangedSoFar'
  <2>1. job'.op = "none"
    BY <1>0, <1>2 DEF ProgramTyped
  <2> QED BY <1>0, <1>2, <2>1 DEF UnchangedSoFar, FailureChangesNothing
<1> QED BY <1>3, <1>4, <1>5 DEF Inv

------------------------------------------------------------------------------
(* The theorems. *)

LEMMA InitInv == Init => Inv
<1> SUFFICES ASSUME Init PROVE Inv
  OBVIOUS
<1>1. FilesTyped
  <2>1. buf \in Record
    BY ByteAssumption DEF Init, Record
  <2>2. HandlesTyped
    <3>1. fh = Null /\ forgotten = <<>>
      BY DEF Init
    <3>2. forgotten \in Seq(Reader) /\ Len(forgotten) = 0
      BY <3>1
    <3> QED BY <3>1, <3>2, NullIsHandle, BoundAssumption DEF HandlesTyped
  <2> QED BY <2>1, <2>2, ContentAssumption DEF Init, FilesTyped
<1>2. ProgramTyped
  BY <1>1 DEF Init, ProgramTyped, FilesTyped, Places
<1>3. WriterInPlace /\ LocalInPlace /\ UnchangedSoFar
  BY NullIsHandle DEF Init, WriterInPlace, LocalInPlace, UnchangedSoFar, FailureChangesNothing
<1> QED BY <1>1, <1>2, <1>3 DEF Inv

LEMMA NextInv == Inv /\ [Next]_vars => Inv'
<1> SUFFICES ASSUME Inv, [Next]_vars PROVE Inv'
  OBVIOUS
<1>1. CASE Program
  BY <1>1, ReadOpensRemoteInv, ReadOpensLocalInv, ReadMakesLocalInv, ReadReadsInv,
     ReadWritesInv, WriteOpensLocalInv, WriteOpensRemoteInv, WriteReadsInv,
     WriteWritesInv, EndInv DEF Program
<1>2. CASE StdioFlushes
  BY <1>2, StdioFlushesInv
<1>3. CASE User
  BY <1>3, StartInv, StopInv, EditInv DEF User
<1>4. CASE UNCHANGED vars
  <2>1. FilesTyped'
    BY <1>4 DEF vars, Inv, FilesTyped, HandlesTyped
  <2>2. ProgramTyped'
    BY <1>4 DEF vars, Inv, ProgramTyped
  <2>3. WriterInPlace' /\ LocalInPlace'
    BY <1>4 DEF vars, Inv, WriterInPlace, LocalInPlace
  <2>4. UnchangedSoFar'
    BY <1>4 DEF vars, Inv, UnchangedSoFar, FailureChangesNothing
  <2> QED BY <2>1, <2>2, <2>3, <2>4 DEF Inv
<1> QED BY <1>1, <1>2, <1>3, <1>4 DEF Next

LEMMA SpecInv == Spec => []Inv
BY InitInv, NextInv, PTL DEF Spec

\* The records are whole and nothing leaves its type, for every record size.
THEOREM TypeOKAlways == Spec => []TypeOK
<1>1. Inv => TypeOK
  <2> SUFFICES ASSUME Inv PROVE TypeOK
    OBVIOUS
  <2>1. \A i \in 1 .. Len(forgotten) : forgotten[i] \in Handle
    BY ElementOfSeq DEF Inv, FilesTyped, HandlesTyped, Reader
  <2>2. forgotten \in Seq(Handle)
    BY <2>1, LenProperties DEF Inv, FilesTyped, HandlesTyped
  <2> QED BY <2>2 DEF Inv, FilesTyped, HandlesTyped, ProgramTyped, TypeOK
<1> QED BY <1>1, SpecInv, PTL

\* Handles that service 10 forgets have nothing to write (main.c:130), for any number of
\* copies and handles.
THEOREM NoWriterForgottenAlways == Spec => []NoWriterForgotten
<1>1. Inv => NoWriterForgotten
  BY ElementOfSeq DEF Inv, FilesTyped, HandlesTyped, Reader, NoWriterForgotten
<1> QED BY <1>1, SpecInv, PTL

\* A READ or WRITE that ends with a message has changed no file, whatever the files are.
THEOREM FailureChangesNothingAlways == Spec => []FailureChangesNothing
<1>1. Inv => FailureChangesNothing
  BY DEF Inv, UnchangedSoFar
<1> QED BY <1>1, SpecInv, PTL
------------------------------------------------------------------------------
(* Numbers: quotients by a size that is not known. *)

LEMMA Quotient ==
  ASSUME NEW x \in Nat, NEW m \in Nat \ {0}
  PROVE  x \div m \in Nat /\ x % m \in 0 .. m - 1 /\ x = (x \div m) * m + (x % m)
<1>1. x \div m \in Nat /\ x % m \in 0 .. m - 1
  BY SMTT(20)
<1>2. x = (x \div m) * m + (x % m)
  BY SMTT(20)
<1> QED BY <1>1, <1>2

LEMMA TimesIsMonotonic ==
  ASSUME NEW a \in Int, NEW b \in Int, a <= b, NEW m \in Nat
  PROVE  a * m <= b * m
<1> DEFINE d == b - a
<1>1. d \in Nat
  OBVIOUS
<1>2. d * m = b * m - a * m
  OBVIOUS
<1> HIDE DEF d
<1>3. d * m >= 0
  BY <1>1, SMT
<1>4. a * m \in Int /\ b * m \in Int
  OBVIOUS
<1> QED BY <1>2, <1>3, <1>4

LEMMA QuotientIsUnique ==
  ASSUME NEW m \in Nat \ {0}, NEW q \in Nat, NEW r \in 0 .. m - 1
  PROVE  (q * m + r) \div m = q /\ (q * m + r) % m = r
<1> DEFINE x == q * m + r
           p == x \div m
           s == x % m
<1>1. x \in Nat
  OBVIOUS
<1>2. p \in Nat /\ s \in 0 .. m - 1 /\ x = p * m + s
  <2> HIDE DEF x
  <2> QED BY <1>1, Quotient
<1>3. q * m + r = p * m + s
  BY <1>2
<1>4. q * m \in Int /\ p * m \in Int
  BY <1>2
<1> HIDE DEF x, p, s
<1>5. p = q
  <2>1. CASE p > q
    <3>1. (q + 1) * m <= p * m
      BY <2>1, <1>2, TimesIsMonotonic
    <3>2. (q + 1) * m = q * m + m
      OBVIOUS
    <3> QED BY <1>2, <1>3, <1>4, <3>1, <3>2
  <2>2. CASE p < q
    <3>1. (p + 1) * m <= q * m
      BY <2>2, <1>2, TimesIsMonotonic
    <3>2. (p + 1) * m = p * m + m
      BY <1>2
    <3> QED BY <1>2, <1>3, <1>4, <3>1, <3>2
  <2> QED BY <1>2, <2>1, <2>2
<1>6. s = r
  BY <1>2, <1>3, <1>4, <1>5
<1> QED BY <1>5, <1>6 DEF p, s, x

------------------------------------------------------------------------------
(* Files as records and as bytes. *)

\* What READ has left of CP/M's file after the first n records of bytes.
LeavesAt(bytes, old, n) ==
  LET tail == IF old = Absent THEN 0 ELSE Len(old)
  IN  [k \in 1 .. (IF tail > n THEN tail ELSE n) |->
         IF k <= n THEN Records(bytes)[k] ELSE old[k]]

\* The records of c with another one in place n + 1, or after them (LocalWrite).
WithRecord(c, n, record) ==
  [k \in 1 .. (IF n < Len(c) THEN Len(c) ELSE n + 1) |-> IF k = n + 1 THEN record ELSE c[k]]

\* The bytes of the first n records.
FirstBytes(records, n) ==
  [x \in 1 .. n * RecordSize |->
     records[(x - 1) \div RecordSize + 1][((x - 1) % RecordSize) + 1]]

LEMMA RecordsAreWhole ==
  ASSUME NEW bytes \in Seq(Byte)
  PROVE  /\ Records(bytes) \in Seq(Record)
         /\ \A k \in Nat : k < Len(Records(bytes)) <=> k * RecordSize < Len(bytes)
         /\ \A k \in 1 .. Len(Records(bytes)) :
              Records(bytes)[k] = [i \in 1 .. RecordSize |->
                IF (k - 1) * RecordSize + i <= Len(bytes)
                THEN bytes[(k - 1) * RecordSize + i] ELSE NUL]
<1> DEFINE x == Len(bytes) + RecordSize - 1
           n == x \div RecordSize
           s == x % RecordSize
           R(k) == [i \in 1 .. RecordSize |->
                      IF (k - 1) * RecordSize + i <= Len(bytes)
                      THEN bytes[(k - 1) * RecordSize + i] ELSE NUL]
<1>1. Len(bytes) \in Nat /\ RecordSize \in Nat \ {0} /\ NUL \in Byte /\ x \in Nat
  BY ByteAssumption, LenProperties
<1>2. n \in Nat /\ s \in 0 .. RecordSize - 1 /\ x = n * RecordSize + s
  <2> HIDE DEF x
  <2> QED BY <1>1, Quotient
<1>3. Records(bytes) = [k \in 1 .. n |-> R(k)]
  BY DEF Records
<1>4. \A k \in 1 .. n : R(k) \in Record
  <2> SUFFICES ASSUME NEW k \in 1 .. n, NEW i \in 1 .. RecordSize,
                      (k - 1) * RecordSize + i <= Len(bytes)
               PROVE  bytes[(k - 1) * RecordSize + i] \in Byte
    BY <1>1 DEF Record
  <2>1. k - 1 \in Nat /\ i \in Nat \ {0}
    BY <1>1, <1>2
  <2>2. (k - 1) * RecordSize \in Nat
    BY <1>1, <2>1
  <2>3. (k - 1) * RecordSize + i \in 1 .. Len(bytes)
    <3> DEFINE y == (k - 1) * RecordSize
    <3> HIDE DEF y
    <3> QED BY <1>1, <2>1, <2>2 DEF y
  <2> QED BY <2>3, ElementOfSeq
<1>5. Records(bytes) \in Seq(Record) /\ Len(Records(bytes)) = n
  <2> HIDE DEF n, R
  <2>1. Records(bytes) \in [1 .. n -> Record]
    BY <1>3, <1>4
  <2> QED BY <1>2, <2>1
<1>6. ASSUME NEW k \in Nat
      PROVE  k < n <=> k * RecordSize < Len(bytes)
  <2>1. n * RecordSize + s = Len(bytes) + RecordSize - 1
    BY <1>2
  <2>2. n * RecordSize \in Nat /\ k * RecordSize \in Nat
    BY <1>1, <1>2
  <2> HIDE DEF n, s, x
  <2>3. CASE k < n
    <3>1. (k + 1) * RecordSize <= n * RecordSize
      BY <1>1, <1>2, <2>3, TimesIsMonotonic
    <3>2. (k + 1) * RecordSize = k * RecordSize + RecordSize
      BY <1>1
    <3> QED BY <1>1, <1>2, <2>1, <2>2, <2>3, <3>1, <3>2
  <2>4. CASE n <= k
    <3>1. n * RecordSize <= k * RecordSize
      BY <1>1, <1>2, <2>4, TimesIsMonotonic
    <3> QED BY <1>1, <1>2, <2>1, <2>2, <2>4, <3>1
  <2> QED BY <1>2, <2>3, <2>4
<1>7. \A k \in 1 .. n : Records(bytes)[k] = R(k)
  <2> HIDE DEF n, R
  <2> QED BY <1>3
<1> QED BY <1>5, <1>6, <1>7

LEMMA LeavesAreRecords ==
  ASSUME NEW bytes \in Seq(Byte), NEW old \in Seq(Record) \cup {Absent},
         NEW n \in 0 .. Len(Records(bytes))
  PROVE  /\ LeavesAt(bytes, old, n) \in Seq(Record)
         /\ Len(LeavesAt(bytes, old, n)) =
              LET tail == IF old = Absent THEN 0 ELSE Len(old)
              IN  IF tail > n THEN tail ELSE n
<1> DEFINE tail == IF old = Absent THEN 0 ELSE Len(old)
           m == IF tail > n THEN tail ELSE n
<1>1. Records(bytes) \in Seq(Record) /\ Len(Records(bytes)) \in Nat
  BY RecordsAreWhole, LenProperties
<1>2. tail \in Nat /\ m \in Nat /\ n \in Nat
  BY <1>1, LenProperties
<1>3. \A k \in 1 .. m : (IF k <= n THEN Records(bytes)[k] ELSE old[k]) \in Record
  <2> TAKE k \in 1 .. m
  <2>1. CASE k <= n
    <3>1. k \in 1 .. Len(Records(bytes))
      BY <1>1, <1>2, <2>1
    <3> QED BY <1>1, <2>1, <3>1, ElementOfSeq
  <2>2. CASE ~(k <= n)
    <3>1. old \in Seq(Record) /\ k \in 1 .. Len(old)
      BY <1>2, <2>2
    <3> QED BY <2>2, <3>1, ElementOfSeq
  <2> QED BY <2>1, <2>2
<1>4. LeavesAt(bytes, old, n) = [k \in 1 .. m |-> IF k <= n THEN Records(bytes)[k] ELSE old[k]]
  BY DEF LeavesAt
<1>5. LeavesAt(bytes, old, n) \in [1 .. m -> Record]
  <2> HIDE DEF m
  <2> QED BY <1>3, <1>4
<1>6. LeavesAt(bytes, old, n) \in Seq(Record) /\ Len(LeavesAt(bytes, old, n)) = m
  <2> HIDE DEF m
  <2> QED BY <1>2, <1>5
<1> QED BY <1>6

\* Before the first record it is the old file, or an empty one.
LEMMA LeavesOldFirst ==
  ASSUME NEW bytes, NEW old \in Seq(Record) \cup {Absent}
  PROVE  LeavesAt(bytes, old, 0) = IF old = Absent THEN <<>> ELSE old
<1>1. CASE old = Absent
  <2>1. LeavesAt(bytes, old, 0) = [k \in 1 .. 0 |-> IF k <= 0 THEN Records(bytes)[k] ELSE old[k]]
    BY <1>1 DEF LeavesAt
  <2> QED BY <1>1, <2>1
<1>2. CASE old # Absent
  <2> DEFINE c == LeavesAt(bytes, old, 0)
  <2>1. old \in Seq(Record) /\ Len(old) \in Nat
    BY <1>2, LenProperties
  <2>2. c = [k \in 1 .. Len(old) |-> old[k]]
    BY <1>2, <2>1 DEF LeavesAt
  <2> HIDE DEF c
  <2>3. c = old
    BY <2>1, <2>2, LenProperties
  <2> QED BY <1>2, <2>3 DEF c
<1> QED BY <1>1, <1>2

\* Writing one record more (LocalWrite).
LEMMA LeavesGrow ==
  ASSUME NEW bytes \in Seq(Byte), NEW old \in Seq(Record) \cup {Absent},
         NEW n \in Nat, n < Len(Records(bytes)), NEW c, c = LeavesAt(bytes, old, n)
  PROVE  WithRecord(c, n, Records(bytes)[n + 1]) = LeavesAt(bytes, old, n + 1)
<1> DEFINE tail == IF old = Absent THEN 0 ELSE Len(old)
           m == IF tail > n THEN tail ELSE n
           m1 == IF tail > n + 1 THEN tail ELSE n + 1
<1>1. Len(Records(bytes)) \in Nat
  BY RecordsAreWhole, LenProperties
<1>2. tail \in Nat /\ Len(c) = m
  BY <1>1, LeavesAreRecords, LenProperties
<1>3. (IF n < Len(c) THEN Len(c) ELSE n + 1) = m1
  BY <1>2
<1>4. \A k \in 1 .. m1 : (IF k = n + 1 THEN Records(bytes)[n + 1] ELSE c[k]) =
                         (IF k <= n + 1 THEN Records(bytes)[k] ELSE old[k])
  <2> TAKE k \in 1 .. m1
  <2>1. c = [j \in 1 .. m |-> IF j <= n THEN Records(bytes)[j] ELSE old[j]]
    BY DEF LeavesAt
  <2>2. k # n + 1 => k \in 1 .. m
    BY <1>2
  <2>3. k # n + 1 => c[k] = IF k <= n THEN Records(bytes)[k] ELSE old[k]
    <3> HIDE DEF m
    <3> QED BY <2>1, <2>2
  <2>4. k \in Nat /\ (k <= n + 1 <=> k = n + 1 \/ k <= n)
    BY <1>2
  <2> QED BY <2>3, <2>4
<1>5. LeavesAt(bytes, old, n + 1) =
        [k \in 1 .. m1 |-> IF k <= n + 1 THEN Records(bytes)[k] ELSE old[k]]
  BY DEF LeavesAt
<1> HIDE DEF m1
<1>6. WithRecord(c, n, Records(bytes)[n + 1]) =
        [k \in 1 .. m1 |-> IF k = n + 1 THEN Records(bytes)[n + 1] ELSE c[k]]
  BY <1>3 DEF WithRecord
<1> QED BY <1>4, <1>5, <1>6

LEMMA LeavesAtEnd ==
  ASSUME NEW bytes, NEW old
  PROVE  LeavesAt(bytes, old, Len(Records(bytes))) = ReadLeaves(bytes, old)
BY DEF LeavesAt, ReadLeaves

\* A byte of a file of records: which record it is in, and where.
LEMMA PlaceOfByte ==
  ASSUME NEW n \in Nat, NEW x \in 1 .. n * RecordSize
  PROVE  LET k == (x - 1) \div RecordSize
             i == (x - 1) % RecordSize
         IN  /\ k \in 0 .. n - 1 /\ i \in 0 .. RecordSize - 1
             /\ x = k * RecordSize + i + 1
<1> DEFINE y == x - 1
           k == y \div RecordSize
           i == y % RecordSize
<1>1. RecordSize \in Nat \ {0} /\ n * RecordSize \in Nat
  BY ByteAssumption
<1>2. y \in Nat /\ x = y + 1 /\ y < n * RecordSize
  BY <1>1
<1>3. k \in Nat /\ i \in 0 .. RecordSize - 1 /\ y = k * RecordSize + i
  <2> HIDE DEF y
  <2> QED BY <1>1, <1>2, Quotient
<1>4. k < n
  <2>1. k * RecordSize \in Nat
    BY <1>1, <1>3
  <2> HIDE DEF k, i, y
  <2>2. CASE n <= k
    <3>1. n * RecordSize <= k * RecordSize
      BY <1>1, <1>3, <2>2, TimesIsMonotonic
    <3> QED BY <1>1, <1>2, <1>3, <2>1, <3>1
  <2> QED BY <1>3, <2>2
<1>5. x = k * RecordSize + i + 1
  BY <1>2, <1>3
<1> HIDE DEF k, i, y
<1>6. k \in 0 .. n - 1
  BY <1>3, <1>4
<1> QED BY <1>3, <1>5, <1>6 DEF k, i, y

LEMMA FirstBytesAreBytes ==
  ASSUME NEW records \in Seq(Record), NEW n \in 0 .. Len(records)
  PROVE  /\ FirstBytes(records, n) \in Seq(Byte)
         /\ Len(FirstBytes(records, n)) = n * RecordSize
<1> DEFINE at(x) == records[(x - 1) \div RecordSize + 1][((x - 1) % RecordSize) + 1]
           m == n * RecordSize
<1>1. RecordSize \in Nat \ {0} /\ Len(records) \in Nat /\ n \in Nat /\ m \in Nat
  BY ByteAssumption, LenProperties
<1>2. \A x \in 1 .. m : at(x) \in Byte
  <2> TAKE x \in 1 .. m
  <2> DEFINE k == (x - 1) \div RecordSize
             i == (x - 1) % RecordSize
  <2>1. k \in 0 .. n - 1 /\ i \in 0 .. RecordSize - 1
    BY <1>1, PlaceOfByte
  <2> HIDE DEF k, i
  <2>2. k + 1 \in 1 .. Len(records) /\ i + 1 \in 1 .. RecordSize
    BY <1>1, <2>1
  <2>3. records[k + 1] \in Record
    BY <2>2, ElementOfSeq
  <2> QED BY <2>2, <2>3 DEF k, i, Record
<1>3. FirstBytes(records, n) = [x \in 1 .. m |-> at(x)]
  BY DEF FirstBytes
<1>4. FirstBytes(records, n) \in [1 .. m -> Byte]
  <2> HIDE DEF at, m
  <2> QED BY <1>2, <1>3
<1> HIDE DEF at, m
<1>5. FirstBytes(records, n) \in Seq(Byte) /\ Len(FirstBytes(records, n)) = m
  BY <1>1, <1>4
<1> QED BY <1>5 DEF m

\* Byte i of record k.
LEMMA ByteOfRecord ==
  ASSUME NEW records, NEW n \in Nat, NEW k \in 1 .. n, NEW i \in 1 .. RecordSize
  PROVE  /\ (k - 1) * RecordSize + i \in 1 .. n * RecordSize
         /\ FirstBytes(records, n)[(k - 1) * RecordSize + i] = records[k][i]
<1> DEFINE q == k - 1
           r == i - 1
           x == q * RecordSize + i
           m == n * RecordSize
<1>1. RecordSize \in Nat \ {0} /\ q \in Nat /\ r \in 0 .. RecordSize - 1
      /\ k = q + 1 /\ i = r + 1 /\ i \in Nat
  BY ByteAssumption
<1>2. q * RecordSize \in Nat /\ m \in Nat
  BY <1>1
<1>3. x \in 1 .. m
  <2>1. (q + 1) * RecordSize <= m
    <3>1. q + 1 <= n
      BY <1>1
    <3> HIDE DEF q
    <3> QED BY <1>1, <3>1, TimesIsMonotonic
  <2>2. (q + 1) * RecordSize = q * RecordSize + RecordSize
    BY <1>1
  <2> DEFINE y == q * RecordSize
  <2> HIDE DEF y, m
  <2> QED BY <1>1, <1>2, <2>1, <2>2 DEF y
<1>4. (x - 1) \div RecordSize = q /\ (x - 1) % RecordSize = r
  <2>1. x - 1 = q * RecordSize + r
    BY <1>1, <1>2
  <2> HIDE DEF q, r, x
  <2>2. (q * RecordSize + r) \div RecordSize = q /\ (q * RecordSize + r) % RecordSize = r
    BY <1>1, QuotientIsUnique
  <2> QED BY <2>1, <2>2, Zenon
<1>5. FirstBytes(records, n)[x] =
        records[(x - 1) \div RecordSize + 1][((x - 1) % RecordSize) + 1]
  <2> HIDE DEF x
  <2> QED BY <1>3 DEF FirstBytes
<1> HIDE DEF x, r
<1>6. FirstBytes(records, n)[x] = records[k][i]
  BY <1>1, <1>4, <1>5
<1> QED BY <1>3, <1>6 DEF x

\* The bytes of one record more are those of the records before, and its own.
LEMMA BytesGrow ==
  ASSUME NEW records \in Seq(Record), NEW n \in Nat, n < Len(records)
  PROVE  FirstBytes(records, n) \o records[n + 1] = FirstBytes(records, n + 1)
<1> DEFINE a == FirstBytes(records, n)
           b == records[n + 1]
           c == FirstBytes(records, n + 1)
           m == n * RecordSize
<1>1. RecordSize \in Nat \ {0} /\ Len(records) \in Nat /\ m \in Nat
  BY ByteAssumption, LenProperties
<1>2. a \in Seq(Byte) /\ Len(a) = m
  BY <1>1, FirstBytesAreBytes
<1>3. c \in Seq(Byte) /\ Len(c) = m + RecordSize
  <2>1. (n + 1) * RecordSize = m + RecordSize
    BY <1>1
  <2> QED BY <1>1, <2>1, FirstBytesAreBytes
<1>4. b \in Seq(Byte) /\ Len(b) = RecordSize
  <2>1. b \in Record
    BY <1>1, ElementOfSeq
  <2> QED BY <1>1, <2>1 DEF Record
<1>5. \A x \in 1 .. m : c[x] = a[x]
  <2> TAKE x \in 1 .. m
  <2>1. x \in 1 .. (n + 1) * RecordSize
    <3>1. (n + 1) * RecordSize = m + RecordSize
      BY <1>1
    <3> HIDE DEF m
    <3> QED BY <1>1, <3>1
  <2> QED BY <2>1 DEF FirstBytes
<1>6. \A i \in 1 .. RecordSize : c[m + i] = b[i]
  <2> TAKE i \in 1 .. RecordSize
  <2>1. n + 1 \in Nat /\ n + 1 \in 1 .. n + 1 /\ (n + 1) - 1 = n
    OBVIOUS
  <2>2. c[((n + 1) - 1) * RecordSize + i] = records[n + 1][i]
    BY <2>1, ByteOfRecord
  <2> QED BY <2>1, <2>2
<1> HIDE DEF a, b, c, m
<1>7. a \o b \in Seq(Byte) /\ Len(a \o b) = m + RecordSize
      /\ \A x \in 1 .. m + RecordSize : (a \o b)[x] = IF x <= m THEN a[x] ELSE b[x - m]
  BY <1>1, <1>2, <1>4, ConcatProperties
<1>8. \A x \in 1 .. m + RecordSize : (a \o b)[x] = c[x]
  <2> TAKE x \in 1 .. m + RecordSize
  <2>1. CASE x <= m
    <3>1. x \in 1 .. m
      BY <1>1, <2>1
    <3> QED BY <1>5, <1>7, <2>1, <3>1
  <2>2. CASE ~(x <= m)
    <3>1. x - m \in 1 .. RecordSize /\ m + (x - m) = x
      BY <1>1, <2>2
    <3>2. c[m + (x - m)] = b[x - m]
      BY <1>6, <3>1
    <3> QED BY <1>7, <2>2, <3>1, <3>2
  <2> QED BY <2>1, <2>2
<1>9. a \o b = c
  BY <1>1, <1>3, <1>7, <1>8, SeqEqual
<1> QED BY <1>9 DEF a, b, c

LEMMA AllBytes ==
  ASSUME NEW records
  PROVE  Bytes(records) = FirstBytes(records, Len(records))
BY DEF Bytes, FirstBytes

\* The bytes of records make these records again.
LEMMA RecordsOfBytes ==
  ASSUME NEW records \in Seq(Record)
  PROVE  Bytes(records) \in Seq(Byte) /\ Records(Bytes(records)) = records
<1> DEFINE b == Bytes(records)
           r == Records(b)
           n == Len(records)
<1>1. RecordSize \in Nat \ {0} /\ n \in Nat
  BY ByteAssumption, LenProperties
<1>2. b = FirstBytes(records, n) /\ b \in Seq(Byte) /\ Len(b) = n * RecordSize
  BY <1>1, AllBytes, FirstBytesAreBytes
<1> HIDE DEF b
<1>3. /\ r \in Seq(Record)
      /\ \A k \in Nat : k < Len(r) <=> k * RecordSize < Len(b)
      /\ \A k \in 1 .. Len(r) :
           r[k] = [i \in 1 .. RecordSize |->
                     IF (k - 1) * RecordSize + i <= Len(b)
                     THEN b[(k - 1) * RecordSize + i] ELSE NUL]
  BY <1>2, RecordsAreWhole
<1> HIDE DEF r
<1>4. Len(r) \in Nat
  BY <1>3, LenProperties
<1>5. Len(r) = n
  <2>0. Len(r) * RecordSize \in Nat /\ n * RecordSize \in Nat
    BY <1>1, <1>4
  <2>1. CASE n < Len(r)
    <3>1. n * RecordSize < Len(b)
      BY <1>1, <1>3, <2>1
    <3> HIDE DEF n
    <3> QED BY <1>2, <2>0, <3>1
  <2>2. CASE Len(r) < n
    <3>1. ~(Len(r) * RecordSize < n * RecordSize)
      <4>1. \A k \in Nat : ~(k < Len(r)) => ~(k * RecordSize < Len(b))
        BY <1>3
      <4>2. ~(Len(r) < Len(r))
        BY <1>4
      <4>3. ~(Len(r) * RecordSize < Len(b))
        BY <1>4, <4>1, <4>2, Zenon
      <4> HIDE DEF n
      <4> QED BY <1>2, <4>3
    <3>2. (Len(r) + 1) * RecordSize <= n * RecordSize
      BY <1>1, <1>4, <2>2, TimesIsMonotonic
    <3>3. (Len(r) + 1) * RecordSize = Len(r) * RecordSize + RecordSize
      BY <1>1, <1>4
    <3> HIDE DEF n
    <3> QED BY <1>1, <2>0, <3>1, <3>2, <3>3
  <2> QED BY <1>1, <1>4, <2>1, <2>2
<1>6. ASSUME NEW k \in 1 .. n
      PROVE  r[k] = records[k]
  <2>1. \A i \in 1 .. RecordSize : /\ (k - 1) * RecordSize + i <= Len(b)
                                   /\ b[(k - 1) * RecordSize + i] = records[k][i]
    <3> TAKE i \in 1 .. RecordSize
    <3>1. (k - 1) * RecordSize + i \in 1 .. n * RecordSize
          /\ FirstBytes(records, n)[(k - 1) * RecordSize + i] = records[k][i]
      BY <1>1, ByteOfRecord
    <3> QED BY <1>2, <3>1
  <2>2. records[k] \in Record
    BY ElementOfSeq
  <2>3. records[k] = [i \in 1 .. RecordSize |-> records[k][i]]
    BY <2>2 DEF Record
  <2> QED BY <1>3, <1>5, <2>1, <2>3
<1>7. r = records
  BY <1>3, <1>5, <1>6, SeqEqual
<1> QED BY <1>2, <1>7 DEF r, b

------------------------------------------------------------------------------
(* Whole copies: what each side holds at every place of the loops. *)

\* The file that READ reads.
Source == IF job.host["upper"] = Absent THEN "lower" ELSE "upper"
Original == job.host[Source]

Reading == pc \in {"open", "make", "rread", "writeseq"} \/ (pc = "rclose" /\ job.op = "read")
Writing == pc \in {"readseq", "rwrite"} \/ (pc = "rclose" /\ job.op = "write")

\* Each place belongs to a program; only what is written waits in stdio's buffer.
JobInPlace ==
  /\ pc \in {"ropen", "open", "make", "rread", "writeseq"} => job.op = "read"
  /\ pc \in {"lopen", "ropenw", "readseq", "rwrite"} => job.op = "write"
  /\ pc = "rclose" => job.op \in {"read", "write"}
  /\ fh.mode # "w" => fh.held = <<>>

\* READ has its file open and has changed nothing on the host.
ReaderInPlace ==
  /\ Reading => host = job.host /\ Original # Absent /\ fh.mode = "r" /\ fh.path = Source
  /\ pc \in {"open", "make"} => fh.pos = 0
  /\ pc = "make" => cpm = Absent

\* WRITE has CP/M's file, and the host's open.
CopierInPlace ==
  /\ pc = "ropenw" => cpm # Absent /\ cr = 0
  /\ Writing =>
       /\ cpm = job.cpm /\ cpm # Absent /\ cr <= Len(cpm)
       /\ fh.mode = "w" /\ host["lower"] = job.host["lower"]

\* The records up to cr are in place, and the host's file is read up to them; one
\* more is in the buffer before it is written.
ReadIsExact ==
  ~faulty =>
    /\ pc = "rread" =>
         /\ cr <= Len(Records(Original))
         /\ fh.pos = Smaller(cr * RecordSize, Len(Original))
         /\ cpm = LeavesAt(Original, job.cpm, cr)
    /\ pc = "writeseq" =>
         /\ cr < Len(Records(Original))
         /\ fh.pos = Smaller((cr + 1) * RecordSize, Len(Original))
         /\ cpm = LeavesAt(Original, job.cpm, cr) /\ buf = Records(Original)[cr + 1]
    /\ pc = "rclose" /\ job.op = "read" => cpm = ReadLeaves(Original, job.cpm)

\* The host's file and what stdio holds are the bytes up to the record cr, but for the
\* one in the buffer.
WriteIsExact ==
  ~faulty =>
    /\ pc = "readseq" => host["upper"] \o fh.held = FirstBytes(cpm, cr)
    /\ pc = "rwrite" =>
         /\ cr > 0 /\ buf = cpm[cr]
         /\ host["upper"] \o fh.held = FirstBytes(cpm, cr - 1)
    /\ pc = "rclose" /\ job.op = "write" => host["upper"] \o fh.held = Bytes(cpm)

\* The host still has what the last whole WRITE wrote, until another one begins to.
WrittenIsKept == written # Absent /\ pc # "off" /\ ~Writing => host["upper"] = Bytes(written)

CopyInv ==
  /\ JobInPlace /\ ReaderInPlace /\ CopierInPlace /\ ReadIsExact /\ WriteIsExact
  /\ WrittenIsKept /\ CopyIsComplete

LEMMA OriginalIsTyped ==
  ASSUME Inv, Original # Absent
  PROVE  Original \in Seq(Byte) /\ Source \in Path /\ job.cpm \in Seq(Record) \cup {Absent}
BY DEF Inv, ProgramTyped, Original, Source, Path

\* The steps that touch no file that a program copies.
LEMMA StartCopies ==
  ASSUME Inv, CopyInv, StartRead \/ StartWrite
  PROVE  CopyInv'
<1> PICK program, first :
      /\ <<program, first>> \in {<<"read", "ropen">>, <<"write", "lopen">>}
      /\ Start(program, first)
  BY DEF StartRead, StartWrite
<1>1. pc = "idle" /\ pc' = first /\ job' = [op |-> program, host |-> host, cpm |-> cpm]
      /\ fh' = fh /\ host' = host /\ written' = written
      /\ program \in {"read", "write"}
      /\ first = (IF program = "read" THEN "ropen" ELSE "lopen")
  BY DEF Start
<1>2. JobInPlace'
  BY <1>1 DEF CopyInv, JobInPlace
<1>3. ReaderInPlace' /\ CopierInPlace' /\ ReadIsExact' /\ WriteIsExact' /\ CopyIsComplete'
  BY <1>1 DEF ReaderInPlace, CopierInPlace, ReadIsExact, WriteIsExact, CopyIsComplete,
              EndedWell, Reading, Writing
<1>4. WrittenIsKept'
  BY <1>1 DEF CopyInv, WrittenIsKept, Writing
<1> QED BY <1>2, <1>3, <1>4 DEF CopyInv

LEMMA StopCopies ==
  ASSUME Inv, CopyInv, Quit \/ Kill
  PROVE  CopyInv'
<1>1. pc' = "off" /\ fh' = Null
  BY DEF Quit, Kill
<1> QED BY <1>1 DEF CopyInv, JobInPlace, ReaderInPlace, CopierInPlace, ReadIsExact,
                    WriteIsExact, CopyIsComplete, WrittenIsKept, EndedWell, Reading, Writing,
                    Null

LEMMA EditCopies ==
  ASSUME Inv, CopyInv,
         \/ \E p \in Path, content \in HostContent \cup {Absent} : HostEdit(p, content)
         \/ \E content \in CpmContent \cup {Absent} : CpmEdit(content)
  PROVE  CopyInv'
<1>1. pc = "idle" /\ pc' = "idle" /\ fh' = fh /\ job' = [job EXCEPT !.op = "none"]
  BY DEF HostEdit, CpmEdit
<1>2. job'.op = "none"
  BY <1>1 DEF Inv, ProgramTyped
<1>3. JobInPlace' /\ CopyIsComplete'
  BY <1>1, <1>2 DEF CopyInv, JobInPlace, CopyIsComplete
<1>4. ReaderInPlace' /\ CopierInPlace' /\ ReadIsExact' /\ WriteIsExact'
  BY <1>1 DEF ReaderInPlace, CopierInPlace, ReadIsExact, WriteIsExact, Reading, Writing
<1>5. WrittenIsKept'
  <2>1. written # Absent => host["upper"] = Bytes(written)
    BY <1>1 DEF CopyInv, WrittenIsKept, Writing
  <2>2. ASSUME NEW p \in Path, NEW content, HostEdit(p, content)
        PROVE  WrittenIsKept'
    <3>1. host' = [host EXCEPT ![p] = content]
          /\ written' = IF p = "upper" THEN Absent ELSE written
      BY <2>2 DEF HostEdit
    <3>2. p # "upper" => host'["upper"] = host["upper"]
      BY <3>1 DEF Inv, FilesTyped, Path
    <3> QED BY <2>1, <3>1, <3>2 DEF WrittenIsKept
  <2>3. ASSUME NEW content, CpmEdit(content)
        PROVE  WrittenIsKept'
    BY <2>1, <2>3 DEF CpmEdit, WrittenIsKept
  <2> QED BY <2>2, <2>3
<1> QED BY <1>3, <1>4, <1>5 DEF CopyInv

------------------------------------------------------------------------------
(* The steps of READ. *)

\* Where the programs go without another effect on what the invariant names.
LEMMA FailureCopies ==
  ASSUME Inv, CopyInv, pc' = "idle", message' # "", job' = job, written' = written,
         host' = host, fh'.mode # "w", fh'.held = <<>>, ~Writing, pc # "off"
  PROVE  CopyInv'
<1>1. JobInPlace' /\ ReaderInPlace' /\ CopierInPlace' /\ ReadIsExact' /\ WriteIsExact'
      /\ CopyIsComplete'
  BY DEF JobInPlace, ReaderInPlace, CopierInPlace, ReadIsExact, WriteIsExact,
         CopyIsComplete, EndedWell, Reading, Writing
<1>2. WrittenIsKept'
  BY DEF CopyInv, WrittenIsKept, Writing
<1> QED BY <1>1, <1>2 DEF CopyInv

LEMMA ReadOpensRemoteCopies ==
  ASSUME Inv, CopyInv, ReadOpensRemote
  PROVE  CopyInv'
<1>1. /\ pc = "ropen" /\ host' = host /\ cpm' = cpm /\ cr' = cr /\ job' = job
      /\ written' = written /\ job.op = "read" /\ host = job.host /\ cpm = job.cpm
  BY DEF ReadOpensRemote, OpenToRead, local, histories, Inv, UnchangedSoFar, CopyInv, JobInPlace
<1>2. ReadPath = Source
  BY <1>1 DEF ReadPath, Source
<1>3. CASE host[ReadPath] # Absent /\ CanOpen(ReadPath)
  <2>1. fh' = [mode |-> "r", path |-> Source, pos |-> 0, held |-> <<>>] /\ d0' = OK
    BY <1>2, <1>3 DEF ReadOpensRemote, OpenToRead, Opened
  <2>2. pc' = "open"
    BY <2>1 DEF ReadOpensRemote, GoOn, OK, Error
  <2>3. Source' = Source /\ Original' = Original /\ Original # Absent
    BY <1>1, <1>2, <1>3 DEF Source, Original
  <2>4. JobInPlace' /\ ReaderInPlace'
    BY <1>1, <2>1, <2>2, <2>3 DEF JobInPlace, ReaderInPlace
  <2>5. CopierInPlace' /\ ReadIsExact' /\ WriteIsExact' /\ CopyIsComplete'
    BY <2>2 DEF CopierInPlace, ReadIsExact, WriteIsExact, CopyIsComplete, EndedWell, Writing
  <2>6. WrittenIsKept'
    BY <1>1 DEF CopyInv, WrittenIsKept, Writing
  <2> QED BY <2>4, <2>5, <2>6 DEF CopyInv
<1>4. CASE ~(host[ReadPath] # Absent /\ CanOpen(ReadPath))
  <2>1. fh' = Null /\ d0' = Error
    BY <1>4 DEF ReadOpensRemote, OpenToRead, NotOpened
  <2>2. pc' = "idle" /\ message' = "remote"
    BY <2>1 DEF ReadOpensRemote, GoOn
  <2>3. ~Writing
    BY <1>1 DEF Writing
  <2> QED BY <1>1, <2>1, <2>2, <2>3, FailureCopies DEF Null
<1> QED BY <1>3, <1>4

\* The file that READ begins to fill has no record of the copy.
LEMMA NothingReadYet ==
  ASSUME Inv, Original # Absent
  PROVE  /\ 0 <= Len(Records(Original)) /\ 0 = Smaller(0 * RecordSize, Len(Original))
         /\ LeavesAt(Original, job.cpm, 0) = IF job.cpm = Absent THEN <<>> ELSE job.cpm
<1>1. Original \in Seq(Byte) /\ job.cpm \in Seq(Record) \cup {Absent}
  BY OriginalIsTyped
<1>2. Len(Original) \in Nat /\ Len(Records(Original)) \in Nat /\ RecordSize \in Nat
  BY <1>1, RecordsAreWhole, LenProperties, ByteAssumption
<1>3. 0 = Smaller(0 * RecordSize, Len(Original))
  <2>1. 0 * RecordSize = 0
    BY <1>2
  <2> QED BY <1>2, <2>1 DEF Smaller
<1> QED BY <1>1, <1>2, <1>3, LeavesOldFirst

LEMMA ReadBegins ==
  ASSUME Inv, CopyInv, pc \in {"open", "make"}, pc' = "rread", cr' = 0, fh' = fh,
         host' = host, job' = job, written' = written,
         cpm' = IF job.cpm = Absent THEN <<>> ELSE job.cpm
  PROVE  CopyInv'
<1>1. job.op = "read" /\ host = job.host /\ Original # Absent /\ fh.mode = "r"
      /\ fh.path = Source /\ fh.pos = 0
  BY DEF CopyInv, JobInPlace, ReaderInPlace, Reading
<1>2. Source' = Source /\ Original' = Original
  BY DEF Source, Original
<1>3. JobInPlace' /\ ReaderInPlace'
  BY <1>1, <1>2 DEF CopyInv, JobInPlace, ReaderInPlace
<1>4. ReadIsExact'
  BY <1>1, <1>2, NothingReadYet DEF ReadIsExact
<1>5. CopierInPlace' /\ WriteIsExact' /\ CopyIsComplete'
  BY DEF CopierInPlace, WriteIsExact, CopyIsComplete, EndedWell, Writing
<1>6. WrittenIsKept'
  BY DEF CopyInv, WrittenIsKept, Writing
<1> QED BY <1>3, <1>4, <1>5, <1>6 DEF CopyInv

LEMMA ReadOpensLocalCopies ==
  ASSUME Inv, CopyInv, ReadOpensLocal
  PROVE  CopyInv'
<1>1. /\ pc = "open" /\ host' = host /\ cpm' = cpm /\ fh' = fh /\ job' = job
      /\ written' = written /\ cpm = job.cpm
  BY DEF ReadOpensLocal, LocalOpen, histories, Inv, UnchangedSoFar
<1>2. CASE cpm = Absent
  <2>1. pc' = "make"
    BY <1>2 DEF ReadOpensLocal, LocalOpen
  <2>2. Source' = Source /\ Original' = Original
    BY <1>1 DEF Source, Original
  <2>3. JobInPlace' /\ ReaderInPlace'
    BY <1>1, <1>2, <2>1, <2>2 DEF CopyInv, JobInPlace, ReaderInPlace, Reading
  <2>4. CopierInPlace' /\ ReadIsExact' /\ WriteIsExact' /\ CopyIsComplete'
    BY <2>1 DEF CopierInPlace, ReadIsExact, WriteIsExact, CopyIsComplete, EndedWell, Writing
  <2>5. WrittenIsKept'
    BY <1>1, <2>1 DEF CopyInv, WrittenIsKept, Writing
  <2> QED BY <2>3, <2>4, <2>5 DEF CopyInv
<1>3. CASE cpm # Absent
  <2>1. pc' = "rread" /\ cr' = 0
    BY <1>3 DEF ReadOpensLocal, LocalOpen, OK, Error
  <2> QED BY <1>1, <1>3, <2>1, ReadBegins
<1> QED BY <1>2, <1>3

LEMMA ReadMakesLocalCopies ==
  ASSUME Inv, CopyInv, ReadMakesLocal
  PROVE  CopyInv'
<1>1. /\ pc = "make" /\ host' = host /\ fh' = fh /\ job' = job /\ cr' = 0
      /\ written' = written /\ cpm = job.cpm /\ cpm = Absent /\ fh.mode = "r" /\ ~Writing
      /\ fh.held = <<>>
  BY DEF ReadMakesLocal, histories, Inv, UnchangedSoFar, CopyInv, ReaderInPlace, JobInPlace,
         Reading, Writing
<1>2. \/ pc' = "idle" /\ message' = "local"
      \/ pc' = "rread" /\ cpm' = <<>>
  BY DEF ReadMakesLocal, LocalMake, GoOn, OK, Error
<1> QED BY <1>1, <1>2, FailureCopies, ReadBegins

\* What one call of service 12 reads, without a fault.
LEMMA RecordIsRead ==
  ASSUME Inv, Original # Absent, host = job.host, fh.mode = "r", fh.path = Source,
         cr <= Len(Records(Original)), fh.pos = Smaller(cr * RecordSize, Len(Original)),
         RemoteRead, ~faulty'
  PROVE  \/ /\ d0' = Done /\ cr = Len(Records(Original))
         \/ /\ d0' = OK /\ cr < Len(Records(Original))
            /\ fh'.pos = Smaller((cr + 1) * RecordSize, Len(Original))
            /\ buf' = Records(Original)[cr + 1]
<1> DEFINE len == Len(Original)
           from == cr * RecordSize
           all == Smaller(Len(Rest), RecordSize)
           r == Records(Original)
<1>1. Original \in Seq(Byte) /\ len \in Nat /\ RecordSize \in Nat \ {0}
      /\ cr \in Nat /\ from \in Nat /\ (cr + 1) * RecordSize = from + RecordSize
      /\ Len(r) \in Nat
  <2>1. Original \in Seq(Byte) /\ RecordSize \in Nat \ {0} /\ cr \in Nat
    BY OriginalIsTyped, ByteAssumption DEF Inv, FilesTyped
  <2> QED BY <2>1, RecordsAreWhole, LenProperties
<1>2. fh # Null /\ fh \in Handle
  BY NullIsHandle DEF Inv, FilesTyped, HandlesTyped
<1>3. PICK n \in 0 .. all :
        /\ d0' = IF n = 0 THEN Done ELSE OK
        /\ buf' = IF n = 0 THEN buf ELSE Fill(SubSeq(Rest, 1, n), buf)
        /\ fh' = [fh EXCEPT !.pos = @ + n]
        /\ faulty' = (faulty \/ n < all)
  BY <1>2 DEF RemoteRead
<1>4. Rest = SubSeq(Original, fh.pos + 1, len)
  BY DEF Rest, Original
<1>5. fh.pos \in Nat /\ fh.pos <= len /\ fh.pos = (IF from < len THEN from ELSE len)
  <2> HIDE DEF from, len
  <2> QED BY <1>1 DEF Smaller, from, len
<1>6. /\ Rest \in Seq(Byte) /\ Len(Rest) = len - fh.pos
      /\ \A j \in 1 .. len - fh.pos : Rest[j] = Original[fh.pos + j]
  <2>1. \A j \in fh.pos + 1 .. len : Original[j] \in Byte
    BY <1>1, <1>5, ElementOfSeq
  <2>2. /\ Rest \in Seq(Byte)
        /\ Len(Rest) = IF fh.pos + 1 <= len THEN len - (fh.pos + 1) + 1 ELSE 0
        /\ \A j \in 1 .. len - (fh.pos + 1) + 1 : Rest[j] = Original[fh.pos + 1 + j - 1]
    <3> DEFINE first == fh.pos + 1
    <3>1. first \in Int /\ len \in Int /\ Rest = SubSeq(Original, first, len)
      BY <1>1, <1>4, <1>5
    <3>2. \A j \in first .. len : Original[j] \in Byte
      BY <2>1
    <3> HIDE DEF len, first
    <3>3. /\ SubSeq(Original, first, len) \in Seq(Byte)
          /\ Len(SubSeq(Original, first, len)) = IF first <= len THEN len - first + 1 ELSE 0
          /\ \A j \in 1 .. len - first + 1 :
               SubSeq(Original, first, len)[j] = Original[first + j - 1]
      BY <3>1, <3>2, SubSeqProperties
    <3> QED BY <3>1, <3>3 DEF first
  <2>5. Len(Rest) = len - fh.pos
    <3> HIDE DEF len
    <3> QED BY <1>1, <1>5, <2>2
  <2> HIDE DEF len
  <2>6. \A j \in 1 .. len - fh.pos : Rest[j] = Original[fh.pos + j]
    <3> TAKE j \in 1 .. len - fh.pos
    <3>1. j \in 1 .. len - (fh.pos + 1) + 1 /\ fh.pos + 1 + j - 1 = fh.pos + j
      BY <1>1, <1>5
    <3>2. Rest[j] = Original[fh.pos + 1 + j - 1]
      BY <2>2, <3>1
    <3> QED BY <3>1, <3>2, Zenon
  <2> QED BY <2>2, <2>5, <2>6
<1>7. n = all /\ n \in Nat /\ all = (IF len - fh.pos < RecordSize THEN len - fh.pos ELSE RecordSize)
  <2>1. Len(Rest) = len - fh.pos /\ len - fh.pos \in Nat
    BY <1>1, <1>5, <1>6
  <2>2. all \in Nat /\ all = (IF len - fh.pos < RecordSize THEN len - fh.pos ELSE RecordSize)
    BY <1>1, <2>1 DEF Smaller
  <2>3. ~(n < all)
    BY <1>3
  <2> HIDE DEF all, len
  <2> QED BY <2>2, <2>3
<1>8. cr < Len(r) <=> from < len
  BY <1>1, RecordsAreWhole
<1> HIDE DEF all
<1>9. CASE from < len
  <2>1. fh.pos = from /\ n > 0
    BY <1>1, <1>5, <1>7, <1>9
  <2>2. fh'.pos = Smaller((cr + 1) * RecordSize, len)
    <3>1. fh'.pos = from + n
      BY <1>2, <1>3, <2>1 DEF Handle
    <3> DEFINE next == (cr + 1) * RecordSize
    <3>2. next = from + RecordSize
      BY <1>1
    <3> HIDE DEF from, len, next
    <3>3. from + n = IF next < len THEN next ELSE len
      BY <1>1, <1>7, <1>9, <2>1, <3>2
    <3>4. from + n = Smaller(next, len)
      BY <3>3 DEF Smaller
    <3> QED BY <3>1, <3>4 DEF next
  <2>3. buf' = r[cr + 1]
    <3> DEFINE s == SubSeq(Rest, 1, n)
    <3>1. /\ s \in Seq(Byte) /\ Len(s) = n
          /\ \A i \in 1 .. n : s[i] = Rest[i]
      <4>1. \A i \in 1 .. n : Rest[i] \in Byte
        BY <1>1, <1>5, <1>6, <1>7, ElementOfSeq
      <4>2. n - 1 + 1 = n /\ 1 <= n /\ \A i \in 1 .. n : 1 + i - 1 = i
        BY <1>7, <2>1
      <4> QED BY <1>7, <4>1, <4>2, SubSeqProperties
    <3>2. buf' = Fill(s, buf)
      BY <1>3, <2>1
    <3> HIDE DEF s
    <3>3. cr + 1 \in 1 .. Len(r) /\ (cr + 1) - 1 = cr
      BY <1>1, <1>8, <1>9
    <3>4. r[cr + 1] = [i \in 1 .. RecordSize |->
                         IF ((cr + 1) - 1) * RecordSize + i <= len
                         THEN Original[((cr + 1) - 1) * RecordSize + i] ELSE NUL]
      BY <1>1, <3>3, RecordsAreWhole
    <3>5. r[cr + 1] = [i \in 1 .. RecordSize |->
                         IF from + i <= len THEN Original[from + i] ELSE NUL]
      BY <3>3, <3>4
    <3>6. \A i \in 1 .. RecordSize :
            (IF i <= Len(s) THEN s[i] ELSE NUL) = (IF from + i <= len THEN Original[from + i] ELSE NUL)
      <4> HIDE DEF from, len
      <4> TAKE i \in 1 .. RecordSize
      <4>1. i <= n <=> from + i <= len
        BY <1>1, <1>7, <1>9, <2>1
      <4>2. i <= n => i \in 1 .. n /\ i \in 1 .. len - fh.pos
        BY <1>1, <1>7, <1>9, <2>1
      <4>3. i <= n => s[i] = Original[from + i]
        BY <1>6, <2>1, <3>1, <4>2
      <4> QED BY <3>1, <4>1, <4>3
    <3>7. Fill(s, buf) = [i \in 1 .. RecordSize |-> IF i <= Len(s) THEN s[i] ELSE NUL]
      BY DEF Fill
    <3> HIDE DEF from, len, r
    <3> QED BY <3>2, <3>5, <3>6, <3>7
  <2>4. d0' = OK
    BY <1>3, <2>1
  <2> QED BY <1>8, <1>9, <2>2, <2>3, <2>4
<1>10. CASE ~(from < len)
  <2>1. n = 0
    BY <1>1, <1>5, <1>7, <1>10
  <2> QED BY <1>1, <1>3, <1>8, <1>10, <2>1
<1> QED BY <1>9, <1>10

LEMMA ReadReadsCopies ==
  ASSUME Inv, CopyInv, ReadReads
  PROVE  CopyInv'
<1>1. /\ pc = "rread" /\ host' = host /\ cpm' = cpm /\ cr' = cr /\ job' = job
      /\ written' = written /\ RemoteRead
      /\ pc' = IF d0' = OK THEN "writeseq" ELSE "rclose"
  BY DEF ReadReads, RemoteRead, local, histories
<1>2. job.op = "read" /\ host = job.host /\ Original # Absent /\ fh.mode = "r"
      /\ fh.path = Source /\ fh.held = <<>>
  BY <1>1 DEF CopyInv, JobInPlace, ReaderInPlace, Reading
<1>3. Source' = Source /\ Original' = Original
  BY <1>1 DEF Source, Original
<1>4. fh'.mode = "r" /\ fh'.path = Source /\ fh'.held = <<>>
  <2>1. fh \in Handle
    BY DEF Inv, FilesTyped, HandlesTyped
  <2> QED BY <1>1, <1>2, <2>1 DEF RemoteRead, Handle
<1>5. JobInPlace' /\ ReaderInPlace'
  BY <1>1, <1>2, <1>3, <1>4 DEF JobInPlace, ReaderInPlace
<1>6. ReadIsExact'
  <2> SUFFICES ASSUME ~faulty'
               PROVE  ReadIsExact'
    BY DEF ReadIsExact
  <2>1. ~faulty
    BY <1>1 DEF RemoteRead
  <2>2. /\ cr <= Len(Records(Original)) /\ fh.pos = Smaller(cr * RecordSize, Len(Original))
        /\ cpm = LeavesAt(Original, job.cpm, cr)
    BY <1>1, <2>1 DEF CopyInv, ReadIsExact
  <2>3. \/ d0' = Done /\ cr = Len(Records(Original))
        \/ /\ d0' = OK /\ cr < Len(Records(Original))
           /\ fh'.pos = Smaller((cr + 1) * RecordSize, Len(Original))
           /\ buf' = Records(Original)[cr + 1]
    BY <1>1, <1>2, <2>2, RecordIsRead
  <2>4. CASE d0' = Done /\ cr = Len(Records(Original))
    <3>1. pc' = "rclose" /\ cpm' = ReadLeaves(Original, job.cpm)
      BY <1>1, <2>2, <2>4, LeavesAtEnd DEF OK, Done
    <3> QED BY <1>1, <1>3, <3>1 DEF ReadIsExact
  <2>5. CASE d0' = OK /\ cr < Len(Records(Original))
             /\ fh'.pos = Smaller((cr + 1) * RecordSize, Len(Original))
             /\ buf' = Records(Original)[cr + 1]
    BY <1>1, <1>3, <2>2, <2>5 DEF ReadIsExact
  <2> QED BY <2>3, <2>4, <2>5
<1>7. CopierInPlace' /\ WriteIsExact' /\ CopyIsComplete'
  BY <1>1, <1>2 DEF CopierInPlace, WriteIsExact, CopyIsComplete, EndedWell, Writing
<1>8. WrittenIsKept'
  BY <1>1, <1>2 DEF CopyInv, WrittenIsKept, Writing
<1> QED BY <1>5, <1>6, <1>7, <1>8 DEF CopyInv

LEMMA ReadWritesCopies ==
  ASSUME Inv, CopyInv, ReadWrites
  PROVE  CopyInv'
<1>1. /\ pc = "writeseq" /\ pc' = "rread" /\ host' = host /\ fh' = fh /\ job' = job
      /\ written' = written /\ LocalWrite
  BY DEF ReadWrites, histories
<1>2. job.op = "read" /\ host = job.host /\ Original # Absent /\ fh.mode = "r"
      /\ fh.path = Source /\ fh.held = <<>>
  BY <1>1 DEF CopyInv, JobInPlace, ReaderInPlace, Reading
<1>3. Source' = Source /\ Original' = Original
  BY <1>1 DEF Source, Original
<1>4. JobInPlace' /\ ReaderInPlace'
  BY <1>1, <1>2, <1>3 DEF JobInPlace, ReaderInPlace
<1>5. ReadIsExact'
  <2> SUFFICES ASSUME ~faulty'
               PROVE  ReadIsExact'
    BY DEF ReadIsExact
  <2>1. cpm' = WithRecord(cpm, cr, buf) /\ cr' = cr + 1 /\ ~faulty
    BY <1>1 DEF LocalWrite, WithRecord
  <2>2. /\ cr < Len(Records(Original))
        /\ fh.pos = Smaller((cr + 1) * RecordSize, Len(Original))
        /\ cpm = LeavesAt(Original, job.cpm, cr) /\ buf = Records(Original)[cr + 1]
    BY <1>1, <2>1 DEF CopyInv, ReadIsExact
  <2>3. Original \in Seq(Byte) /\ job.cpm \in Seq(Record) \cup {Absent} /\ cr \in Nat
        /\ Len(Records(Original)) \in Nat
    <3>1. Original \in Seq(Byte)
      BY <1>2, OriginalIsTyped
    <3> QED BY <1>2, <3>1, OriginalIsTyped, RecordsAreWhole, LenProperties DEF Inv, FilesTyped
  <2>4. cpm' = LeavesAt(Original, job.cpm, cr + 1)
    BY <2>1, <2>2, <2>3, LeavesGrow
  <2>5. cr + 1 <= Len(Records(Original))
    BY <2>2, <2>3
  <2> QED BY <1>1, <1>3, <2>1, <2>2, <2>4, <2>5 DEF ReadIsExact
<1>6. CopierInPlace' /\ WriteIsExact' /\ CopyIsComplete'
  BY <1>1 DEF CopierInPlace, WriteIsExact, CopyIsComplete, EndedWell, Writing
<1>7. WrittenIsKept'
  BY <1>1 DEF CopyInv, WrittenIsKept, Writing
<1> QED BY <1>4, <1>5, <1>6, <1>7 DEF CopyInv

------------------------------------------------------------------------------
(* The steps of WRITE. *)

LEMMA WriteOpensLocalCopies ==
  ASSUME Inv, CopyInv, WriteOpensLocal
  PROVE  CopyInv'
<1>1. /\ pc = "lopen" /\ host' = host /\ cpm' = cpm /\ fh' = fh /\ job' = job /\ cr' = 0
      /\ written' = written /\ job.op = "write" /\ host = job.host /\ cpm = job.cpm
      /\ fh.mode # "w" /\ fh.held = <<>> /\ ~Writing /\ d0' = IF cpm = Absent THEN Error ELSE OK
      /\ IF d0' = Error THEN pc' = "idle" /\ message' = "local" ELSE pc' = "ropenw"
  BY DEF WriteOpensLocal, LocalOpen, GoOn, histories, Inv, UnchangedSoFar, WriterInPlace,
         CopyInv, JobInPlace, Writing
<1>2. CASE d0' = Error
  BY <1>1, <1>2, FailureCopies
<1>3. CASE d0' # Error
  <2>1. pc' = "ropenw" /\ cpm # Absent
    BY <1>1, <1>3
  <2>2. JobInPlace' /\ CopierInPlace'
    BY <1>1, <2>1 DEF JobInPlace, CopierInPlace, Writing
  <2>3. ReaderInPlace' /\ ReadIsExact' /\ WriteIsExact' /\ CopyIsComplete'
    BY <2>1 DEF ReaderInPlace, ReadIsExact, WriteIsExact, CopyIsComplete, EndedWell, Reading
  <2>4. WrittenIsKept'
    BY <1>1 DEF CopyInv, WrittenIsKept, Writing
  <2> QED BY <2>2, <2>3, <2>4 DEF CopyInv
<1> QED BY <1>2, <1>3

LEMMA NoBytesYet ==
  ASSUME NEW records
  PROVE  <<>> \o <<>> = FirstBytes(records, 0)
<1>1. 0 * RecordSize = 0
  BY ByteAssumption
<1>2. FirstBytes(records, 0) = [x \in 1 .. 0 |->
        records[(x - 1) \div RecordSize + 1][((x - 1) % RecordSize) + 1]]
  BY <1>1 DEF FirstBytes
<1>3. FirstBytes(records, 0) = <<>>
  BY <1>2
<1>4. <<>> \o <<>> = <<>>
  <2>1. <<>> \in Seq(Byte)
    OBVIOUS
  <2> QED BY <2>1, ConcatEmptySeq
<1> QED BY <1>3, <1>4

LEMMA WriteOpensRemoteCopies ==
  ASSUME Inv, CopyInv, WriteOpensRemote
  PROVE  CopyInv'
<1>1. /\ pc = "ropenw" /\ cpm' = cpm /\ cr' = cr /\ job' = job /\ written' = written
      /\ job.op = "write" /\ host = job.host /\ cpm = job.cpm /\ cpm # Absent /\ cr = 0
      /\ ~Writing
  BY DEF WriteOpensRemote, local, histories, Inv, UnchangedSoFar, CopyInv, JobInPlace,
         CopierInPlace, Writing
<1>2. CASE CanOpen("upper")
  <2>1. /\ fh' = [mode |-> "w", path |-> "upper", pos |-> 0, held |-> <<>>] /\ d0' = OK
        /\ host' = [host EXCEPT !["upper"] = <<>>]
    BY <1>2 DEF WriteOpensRemote, OpenToWrite, Opened
  <2>2. pc' = "readseq"
    BY <2>1 DEF WriteOpensRemote, GoOn, OK, Error
  <2>3. host'["upper"] = <<>> /\ host'["lower"] = host["lower"]
    BY <2>1 DEF Inv, FilesTyped, Path
  <2>4. 0 <= Len(cpm)
    BY <1>1, LenProperties DEF Inv, FilesTyped
  <2>5. JobInPlace' /\ CopierInPlace'
    BY <1>1, <2>1, <2>2, <2>3, <2>4 DEF JobInPlace, CopierInPlace
  <2>6. WriteIsExact'
    BY <1>1, <2>1, <2>2, <2>3, NoBytesYet DEF WriteIsExact
  <2>7. ReaderInPlace' /\ ReadIsExact' /\ CopyIsComplete' /\ WrittenIsKept'
    BY <2>2 DEF ReaderInPlace, ReadIsExact, CopyIsComplete, EndedWell, Reading,
                WrittenIsKept, Writing
  <2> QED BY <2>5, <2>6, <2>7 DEF CopyInv
<1>3. CASE ~CanOpen("upper")
  <2>1. fh' = Null /\ d0' = Error /\ host' = host
    BY <1>3 DEF WriteOpensRemote, OpenToWrite, NotOpened
  <2>2. pc' = "idle" /\ message' = "remote"
    BY <2>1 DEF WriteOpensRemote, GoOn
  <2> QED BY <1>1, <2>1, <2>2, FailureCopies DEF Null
<1> QED BY <1>2, <1>3

LEMMA WriteReadsCopies ==
  ASSUME Inv, CopyInv, WriteReads
  PROVE  CopyInv'
<1>1. /\ pc = "readseq" /\ host' = host /\ cpm' = cpm /\ fh' = fh /\ job' = job
      /\ written' = written /\ faulty' = faulty /\ LocalRead
      /\ pc' = IF d0' = OK THEN "rwrite" ELSE "rclose"
  BY DEF WriteReads, LocalRead, histories
<1>2. /\ job.op = "write" /\ cpm = job.cpm /\ cpm # Absent /\ cr <= Len(cpm)
      /\ fh.mode = "w" /\ host["lower"] = job.host["lower"]
  BY <1>1 DEF CopyInv, JobInPlace, CopierInPlace, Writing
<1>3. cpm \in Seq(Record) /\ cr \in Nat /\ Len(cpm) \in Nat
  BY <1>2, LenProperties DEF Inv, FilesTyped
<1>4. ~faulty => host["upper"] \o fh.held = FirstBytes(cpm, cr)
  BY <1>1 DEF CopyInv, WriteIsExact
<1>5. /\ cr' <= Len(cpm) /\ WriteIsExact'
      /\ pc' \in {"rwrite", "rclose"}
  <2>1. CASE cr < Len(cpm)
    <3>1. d0' = OK /\ buf' = cpm[cr + 1] /\ cr' = cr + 1
      BY <1>1, <1>2, <2>1 DEF LocalRead
    <3>2. pc' = "rwrite"
      BY <1>1, <3>1
    <3>3. cr' - 1 = cr /\ cr' > 0 /\ cr' <= Len(cpm)
      BY <1>3, <2>1, <3>1
    <3> QED BY <1>1, <1>4, <3>1, <3>2, <3>3 DEF WriteIsExact
  <2>2. CASE ~(cr < Len(cpm))
    <3>1. d0' = Done /\ cr' = cr /\ cr = Len(cpm)
      BY <1>1, <1>2, <1>3, <2>2 DEF LocalRead
    <3>2. pc' = "rclose"
      BY <1>1, <3>1 DEF OK, Done
    <3>3. ~faulty => host["upper"] \o fh.held = Bytes(cpm)
      BY <1>4, <3>1, AllBytes
    <3> QED BY <1>1, <1>2, <3>1, <3>2, <3>3 DEF WriteIsExact
  <2> QED BY <2>1, <2>2
<1>6. JobInPlace' /\ CopierInPlace' /\ WrittenIsKept'
  BY <1>1, <1>2, <1>5 DEF JobInPlace, CopierInPlace, WrittenIsKept, Writing
<1>7. ReaderInPlace' /\ ReadIsExact' /\ CopyIsComplete'
  BY <1>1, <1>2, <1>5 DEF ReaderInPlace, ReadIsExact, CopyIsComplete, EndedWell, Reading
<1> QED BY <1>5, <1>6, <1>7 DEF CopyInv

\* The host's file while WRITE has it open.
LEMMA WriterIsTyped ==
  ASSUME Inv, fh.mode = "w"
  PROVE  /\ host["upper"] \in Seq(Byte) /\ fh.path = "upper" /\ fh # Null
         /\ fh.held \in Seq(Byte) /\ Len(fh.held) \in Nat
<1>1. fh \in Handle /\ fh.path = "upper" /\ host["upper"] \in Seq(Byte)
  BY DEF Inv, WriterInPlace, FilesTyped, HandlesTyped, Path
<1>2. fh.held \in Seq(Byte)
  BY <1>1 DEF Handle
<1> QED BY <1>1, <1>2, NullIsHandle, LenProperties

LEMMA BytesAssociate ==
  ASSUME NEW s \in Seq(Byte), NEW t \in Seq(Byte), NEW u \in Seq(Byte)
  PROVE  (s \o t) \o u = s \o (t \o u)
BY ConcatAssociative

LEMMA WriteWritesCopies ==
  ASSUME Inv, CopyInv, WriteWrites
  PROVE  CopyInv'
<1>1. /\ pc = "rwrite" /\ pc' = "readseq" /\ host' = host /\ cpm' = cpm /\ cr' = cr
      /\ job' = job /\ written' = written /\ faulty' = faulty /\ RemoteWrite
  BY DEF WriteWrites, RemoteWrite, local, histories
<1>2. /\ job.op = "write" /\ cpm = job.cpm /\ cpm # Absent /\ cr <= Len(cpm)
      /\ fh.mode = "w" /\ host["lower"] = job.host["lower"]
  BY <1>1 DEF CopyInv, JobInPlace, CopierInPlace, Writing
<1>3. cpm \in Seq(Record) /\ cr \in Nat /\ Len(cpm) \in Nat /\ fh \in Handle /\ buf \in Record
  BY <1>2, LenProperties DEF Inv, FilesTyped, HandlesTyped
<1>4. host["upper"] \in Seq(Byte) /\ fh.held \in Seq(Byte)
  BY <1>2, WriterIsTyped
<1>5. fh'.mode = "w" /\ fh'.held = fh.held \o buf
  BY <1>1, <1>2, <1>3 DEF RemoteWrite, Handle
<1>6. WriteIsExact'
  <2> SUFFICES ASSUME ~faulty
               PROVE  host["upper"] \o (fh.held \o buf) = FirstBytes(cpm, cr)
    BY <1>1, <1>5 DEF WriteIsExact
  <2>1. cr > 0 /\ buf = cpm[cr] /\ host["upper"] \o fh.held = FirstBytes(cpm, cr - 1)
    BY <1>1 DEF CopyInv, WriteIsExact
  <2> DEFINE before == cr - 1
  <2>2. before \in Nat /\ before < Len(cpm) /\ before + 1 = cr
    BY <1>2, <1>3, <2>1
  <2>3. FirstBytes(cpm, before) \o cpm[before + 1] = FirstBytes(cpm, before + 1)
    <3> HIDE DEF before
    <3> QED BY <1>3, <2>2, BytesGrow
  <2>4. buf \in Seq(Byte)
    BY <1>3, ByteAssumption DEF Record
  <2>5. (host["upper"] \o fh.held) \o buf = host["upper"] \o (fh.held \o buf)
    BY <1>4, <2>4, BytesAssociate
  <2> QED BY <2>1, <2>2, <2>3, <2>5
<1>7. JobInPlace' /\ CopierInPlace' /\ WrittenIsKept'
  BY <1>1, <1>2, <1>5 DEF JobInPlace, CopierInPlace, WrittenIsKept, Writing
<1>8. ReaderInPlace' /\ ReadIsExact' /\ CopyIsComplete'
  BY <1>1 DEF ReaderInPlace, ReadIsExact, CopyIsComplete, EndedWell, Reading
<1> QED BY <1>6, <1>7, <1>8 DEF CopyInv

------------------------------------------------------------------------------
(* stdio's buffer and the end of a copy. *)

\* What stdio held is in the file, unless the disk is full.
LEMMA FlushedIsWhole ==
  ASSUME Inv, fh.mode = "w", Flushed
  PROVE  /\ host' = [host EXCEPT !["upper"] = host'["upper"]]
         /\ host'["lower"] = host["lower"]
         /\ ~faulty' => ~faulty /\ host'["upper"] = host["upper"] \o fh.held
<1>1. host["upper"] \in Seq(Byte) /\ fh.path = "upper" /\ fh.held \in Seq(Byte)
      /\ Len(fh.held) \in Nat
  BY WriterIsTyped
<1>2. PICK n \in 0 .. Len(fh.held) :
        /\ host' = [host EXCEPT ![fh.path] = @ \o SubSeq(fh.held, 1, n)]
        /\ faulty' = (faulty \/ n < Len(fh.held))
  BY DEF Flushed
<1>3. host' = [host EXCEPT !["upper"] = host["upper"] \o SubSeq(fh.held, 1, n)]
  BY <1>1, <1>2
<1>4. host'["upper"] = host["upper"] \o SubSeq(fh.held, 1, n) /\ host'["lower"] = host["lower"]
  BY <1>3 DEF Inv, FilesTyped, Path
<1>5. ~faulty' => ~faulty /\ n = Len(fh.held)
  <2>1. ~faulty' => ~faulty /\ ~(n < Len(fh.held))
    BY <1>2, Zenon
  <2>2. ~(n < Len(fh.held)) => n = Len(fh.held)
    BY <1>1
  <2> QED BY <2>1, <2>2
<1>6. SubSeq(fh.held, 1, Len(fh.held)) = fh.held
  BY <1>1, SubSeqFull
<1> QED BY <1>3, <1>4, <1>5, <1>6

LEMMA EndCopies ==
  ASSUME Inv, CopyInv, End
  PROVE  CopyInv'
<1>1. /\ pc = "rclose" /\ pc' = "idle" /\ cpm' = cpm /\ cr' = cr /\ job' = job
      /\ fh' = Null /\ Flushed /\ written' = WrittenBy(faulty') /\ job.op \in {"read", "write"}
  BY DEF End, RemoteClose, local, CopyInv, JobInPlace
<1>2. JobInPlace' /\ ReaderInPlace' /\ CopierInPlace' /\ ReadIsExact' /\ WriteIsExact'
  BY <1>1 DEF JobInPlace, ReaderInPlace, CopierInPlace, ReadIsExact, WriteIsExact, Null,
              Reading, Writing
<1>3. CASE job.op = "read"
  <2>1. host = job.host /\ fh.mode = "r" /\ Original # Absent
    BY <1>1, <1>3 DEF CopyInv, ReaderInPlace, Reading
  <2>2. host' = host /\ faulty' = faulty /\ written' = written
    BY <1>1, <1>3, <2>1 DEF Flushed, WrittenBy
  <2>3. ~faulty => cpm = ReadLeaves(Original, job.cpm)
    BY <1>1, <1>3 DEF CopyInv, ReadIsExact
  <2>4. CopyIsComplete'
    BY <1>1, <1>3, <2>1, <2>2, <2>3 DEF CopyIsComplete, EndedWell, Original, Source
  <2>5. WrittenIsKept'
    BY <1>1, <1>3, <2>2 DEF CopyInv, WrittenIsKept, Writing
  <2> QED BY <1>2, <2>4, <2>5 DEF CopyInv
<1>4. CASE job.op = "write"
  <2>1. cpm = job.cpm /\ cpm # Absent /\ fh.mode = "w" /\ host["lower"] = job.host["lower"]
    BY <1>1, <1>4 DEF CopyInv, CopierInPlace, Writing
  <2>2. /\ host' = [host EXCEPT !["upper"] = host'["upper"]] /\ host'["lower"] = host["lower"]
        /\ ~faulty' => ~faulty /\ host'["upper"] = host["upper"] \o fh.held
    BY <1>1, <2>1, FlushedIsWhole
  <2>3. ~faulty' => host'["upper"] = Bytes(cpm)
    BY <1>1, <1>4, <2>2 DEF CopyInv, WriteIsExact
  <2>4. ~faulty' => host' = [job.host EXCEPT !["upper"] = Bytes(job.cpm)]
    <3>1. host \in [Path -> Seq(Byte) \cup {Absent}]
          /\ job.host \in [Path -> Seq(Byte) \cup {Absent}]
      BY DEF Inv, FilesTyped, ProgramTyped
    <3> DEFINE new == [job.host EXCEPT !["upper"] = Bytes(job.cpm)]
    <3>2. /\ DOMAIN host' = Path /\ DOMAIN new = Path
          /\ host' = [p \in Path |-> host'[p]] /\ new = [p \in Path |-> new[p]]
      <4>1. host' = [p \in Path |-> IF p = "upper" THEN host'["upper"] ELSE host[p]]
        BY <2>2, <3>1
      <4>2. new = [p \in Path |-> IF p = "upper" THEN Bytes(job.cpm) ELSE job.host[p]]
        BY <3>1
      <4> QED BY <4>1, <4>2
    <3>3. ~faulty' => \A p \in Path : host'[p] = new[p]
      BY <2>1, <2>2, <2>3, <3>1 DEF Path
    <3> HIDE DEF new
    <3>4. ~faulty' => host' = new
      BY <3>2, <3>3
    <3> QED BY <3>4 DEF new
  <2>5. CopyIsComplete'
    BY <1>1, <1>4, <2>1, <2>4 DEF CopyIsComplete, EndedWell
  <2>6. WrittenIsKept'
    BY <1>1, <1>4, <2>3 DEF WrittenIsKept, WrittenBy
  <2> QED BY <1>2, <2>5, <2>6 DEF CopyInv
<1> QED BY <1>1, <1>3, <1>4

LEMMA StdioFlushesCopies ==
  ASSUME Inv, CopyInv, StdioFlushes
  PROVE  CopyInv'
<1>1. /\ pc' = pc /\ cpm' = cpm /\ cr' = cr /\ buf' = buf /\ job' = job /\ written' = written
      /\ Flushed /\ fh.mode = "w"
  BY DEF StdioFlushes, local, histories, CopyInv, JobInPlace
<1>2. pc \in {"readseq", "rwrite", "rclose"} /\ fh \in Handle
  BY <1>1 DEF Inv, WriterInPlace, FilesTyped, HandlesTyped
<1>3. pc = "rclose" => job.op = "write"
  BY <1>1, <1>2 DEF CopyInv, JobInPlace, ReaderInPlace, Reading
<1>4. job.op = "write" /\ Writing /\ cpm = job.cpm /\ cpm # Absent /\ cr <= Len(cpm)
      /\ host["lower"] = job.host["lower"]
  BY <1>2, <1>3 DEF CopyInv, JobInPlace, CopierInPlace, Writing
<1>5. fh'.mode = "w" /\ fh'.held = <<>>
  BY <1>1, <1>2 DEF StdioFlushes, Handle
<1>6. /\ host'["lower"] = host["lower"]
      /\ ~faulty' => ~faulty /\ host'["upper"] = host["upper"] \o fh.held
  BY <1>1, FlushedIsWhole
<1>7. ~faulty' => host'["upper"] \o fh'.held = host["upper"] \o fh.held
  <2>1. host["upper"] \o fh.held \in Seq(Byte)
    BY <1>1, WriterIsTyped, ConcatProperties
  <2> QED BY <1>5, <1>6, <2>1, ConcatEmptySeq
<1>8. WriteIsExact'
  BY <1>1, <1>2, <1>6, <1>7 DEF CopyInv, WriteIsExact
<1>9. JobInPlace' /\ CopierInPlace' /\ WrittenIsKept'
  BY <1>1, <1>2, <1>4, <1>5, <1>6 DEF CopyInv, JobInPlace, CopierInPlace, WrittenIsKept, Writing
<1>10. ReaderInPlace' /\ ReadIsExact' /\ CopyIsComplete'
  BY <1>1, <1>2, <1>4 DEF ReaderInPlace, ReadIsExact, CopyIsComplete, EndedWell, Reading
<1> QED BY <1>8, <1>9, <1>10 DEF CopyInv

------------------------------------------------------------------------------

LEMMA InitCopies == Init => CopyInv
<1> SUFFICES ASSUME Init
             PROVE  CopyInv
  OBVIOUS
<1>1. pc = "idle" /\ fh = Null /\ job.op = "none" /\ written = Absent
  BY DEF Init
<1> QED BY <1>1 DEF CopyInv, JobInPlace, ReaderInPlace, CopierInPlace, ReadIsExact,
                    WriteIsExact, WrittenIsKept, CopyIsComplete, EndedWell, Reading, Writing, Null

LEMMA NextCopies == Inv /\ CopyInv /\ [Next]_vars => CopyInv'
<1> SUFFICES ASSUME Inv, CopyInv, [Next]_vars
             PROVE  CopyInv'
  OBVIOUS
<1>1. CASE ReadOpensRemote \/ ReadOpensLocal \/ ReadMakesLocal \/ ReadReads \/ ReadWrites
  BY <1>1, ReadOpensRemoteCopies, ReadOpensLocalCopies, ReadMakesLocalCopies,
     ReadReadsCopies, ReadWritesCopies
<1>2. CASE WriteOpensLocal \/ WriteOpensRemote \/ WriteReads \/ WriteWrites \/ End
  BY <1>2, WriteOpensLocalCopies, WriteOpensRemoteCopies, WriteReadsCopies,
     WriteWritesCopies, EndCopies
<1>3. CASE StdioFlushes
  BY <1>3, StdioFlushesCopies
<1>4. CASE User
  BY <1>4, StartCopies, StopCopies, EditCopies DEF User
<1>5. CASE UNCHANGED vars
  <2>1. /\ pc' = pc /\ fh' = fh /\ host' = host /\ cpm' = cpm /\ cr' = cr /\ buf' = buf
        /\ job' = job /\ written' = written /\ faulty' = faulty /\ message' = message
    BY <1>5 DEF vars
  <2> QED BY <2>1 DEF CopyInv, JobInPlace, ReaderInPlace, CopierInPlace, ReadIsExact,
                      WriteIsExact, WrittenIsKept, CopyIsComplete, EndedWell, Reading, Writing,
                      Original, Source
<1> QED BY <1>1, <1>2, <1>3, <1>4, <1>5 DEF Next, Program

\* Every behaviour keeps what each side holds at every place of the loops.
LEMMA SpecCopies == Spec => [](Inv /\ CopyInv)
<1>1. Init => Inv /\ CopyInv
  BY InitInv, InitCopies
<1>2. Inv /\ CopyInv /\ [Next]_vars => (Inv /\ CopyInv)'
  BY NextInv, NextCopies
<1> QED BY <1>1, <1>2, PTL DEF Spec

\* A READ or WRITE that ends without a message has moved the whole file, whatever its
\* size, unless a disk failed (main.c:149-175, read.s, write.s).
THEOREM CopyIsCompleteAlways == Spec => []CopyIsComplete
<1>1. Inv /\ CopyInv => CopyIsComplete
  BY DEF CopyInv
<1> QED BY <1>1, SpecCopies, PTL

LEMMA InvRoundTrip ==
  ASSUME Inv, CopyInv
  PROVE  RoundTrip
<1> SUFFICES ASSUME EndedWell, job.op = "read", written # Absent
             PROVE  /\ Len(written) <= Len(cpm)
                    /\ \A k \in 1 .. Len(written) : cpm[k] = written[k]
  BY DEF RoundTrip
<1>1. written \in Seq(Record) /\ Len(written) \in Nat /\ job.cpm \in Seq(Record) \cup {Absent}
  BY LenProperties DEF Inv, ProgramTyped
<1>2. Bytes(written) \in Seq(Byte) /\ Records(Bytes(written)) = written
  BY <1>1, RecordsOfBytes
<1>3. host = job.host /\ cpm = ReadLeaves(job.host[Source], job.cpm)
  BY DEF CopyInv, CopyIsComplete, Source
<1>4. host["upper"] = Bytes(written)
  BY DEF CopyInv, WrittenIsKept, EndedWell, Writing
<1>5. Source = "upper" /\ cpm = ReadLeaves(Bytes(written), job.cpm)
  BY <1>2, <1>3, <1>4, ContentAssumption DEF Source
<1> DEFINE tail == IF job.cpm = Absent THEN 0 ELSE Len(job.cpm)
           len == IF tail > Len(written) THEN tail ELSE Len(written)
<1>6. cpm = [k \in 1 .. len |-> IF k <= Len(written) THEN written[k] ELSE job.cpm[k]]
  BY <1>2, <1>5 DEF ReadLeaves
<1>7. tail \in Nat
  BY <1>1, LenProperties
<1>8. len \in Nat /\ len >= Len(written)
  BY <1>1, <1>7
<1> HIDE DEF len
<1>9. Len(cpm) = len
  BY <1>6, <1>8
<1> QED BY <1>1, <1>6, <1>8, <1>9

\* What WRITE wrote, READ brings back record for record, whatever was on CP/M's disk and
\* with an older file in small letters beside it (main.c:134-137).
THEOREM RoundTripAlways == Spec => []RoundTrip
<1>1. Inv /\ CopyInv => RoundTrip
  BY InvRoundTrip
<1> QED BY <1>1, SpecCopies, PTL
==============================================================================
