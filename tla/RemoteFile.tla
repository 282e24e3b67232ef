----------------------------- MODULE RemoteFile ------------------------------
(***************************************************************************)
(* Files between the host and CP/M: services 10 to 13 of trap_hook()       *)
(* (main.c) and the programs that use them, READ (read.s) and WRITE        *)
(* (write.s), for one file name.  The host keeps bytes, CP/M keeps records.*)
(***************************************************************************)
EXTENDS Integers, Sequences

CONSTANTS
  RecordSize,   \* 128
  Byte,         \* what files hold
  NUL,          \* the byte that fills the last record
  Absent,       \* the content of a file that does not exist
  HostContent,  \* files that the user puts on the host
  CpmContent,   \* files that the user puts on CP/M's disk
  OpenMax,      \* FILE handles that the process may have
  MaxCopies     \* bound: READs and WRITEs in a behaviour

ASSUME ByteAssumption == RecordSize \in Nat \ {0} /\ NUL \in Byte

Record == [1 .. RecordSize -> Byte]

ASSUME ContentAssumption ==
  /\ HostContent \subseteq Seq(Byte) /\ CpmContent \subseteq Seq(Record)
  /\ Absent \notin Seq(Byte) /\ Absent \notin Seq(Record)
ASSUME BoundAssumption == OpenMax \in Nat /\ MaxCopies \in Nat

VARIABLES
  host,       \* the host's files, by the letters of the name
  denied,     \* those that the host does not let the process open
  fh,         \* trap_hook's static fh
  forgotten,  \* the handles that fh no longer points to, still open
  cpm,        \* CP/M's file
  cr,         \* the record of the FCB that comes next
  buf,        \* the programs' buffer, which is also the DMA buffer
  d0,         \* what the last call answered
  pc,         \* where READ or WRITE is
  message,    \* which open the program reported as failed
  job,        \* history: the last program and the files before it
  written,    \* history: the records of the last whole WRITE
  faulty,     \* history: a disk failed or was full in this copy
  copies      \* copies so far

files == <<host, cpm>>
local == <<cpm, cr>>
histories == <<job, written, copies>>
vars == <<host, denied, fh, forgotten, cpm, cr, buf, d0, pc, message, job, written,
          faulty, copies>>

\* The name in capitals and its lc_filename.
Path == {"upper", "lower"}

Modes == {"null", "r", "w"}
Handle == [mode : Modes, path : Path, pos : Nat, held : Seq(Byte)]
Null == [mode |-> "null", path |-> "upper", pos |-> 0, held |-> <<>>]

OK == 0
Done == 1
Error == 255

Smaller(m, n) == IF m < n THEN m ELSE n

------------------------------------------------------------------------------
(* The services. *)

\* Faulty ReadPath: the name in small letters comes first.
ReadPathLower == IF host["lower"] # Absent THEN "lower" ELSE "upper"

\* ENOENT alone leads to the name in small letters.
ReadPath == IF host["upper"] = Absent THEN "lower" ELSE "upper"

\* fopen() fails without a change when the process has too many files open.
CanOpen(path) == path \notin denied /\ Len(forgotten') < OpenMax

Opened(m, path) == fh' = [mode |-> m, path |-> path, pos |-> 0, held |-> <<>>] /\ d0' = OK
NotOpened == fh' = Null /\ d0' = Error

\* Service 10 first forgets the handle it may have.
Forget == forgotten' = IF fh = Null THEN forgotten ELSE Append(forgotten, fh)

OpenToRead ==
  /\ Forget
  /\ IF host[ReadPath] # Absent /\ CanOpen(ReadPath) THEN Opened("r", ReadPath) ELSE NotOpened
  /\ UNCHANGED host

OpenToWrite ==
  /\ Forget
  /\ IF CanOpen("upper")
     THEN Opened("w", "upper") /\ host' = [host EXCEPT !["upper"] = <<>>]
     ELSE NotOpened /\ UNCHANGED host

\* What reading has before it; there is nothing to read in a file that is being
\* written.
Rest ==
  IF fh.mode # "r" \/ host[fh.path] = Absent THEN <<>>
  ELSE SubSeq(host[fh.path], fh.pos + 1, Len(host[fh.path]))

\* Faulty Fill: the last record keeps the end of the record before it.
FillStale(bytes, old) ==
  [i \in 1 .. RecordSize |-> IF i <= Len(bytes) THEN bytes[i] ELSE old[i]]

\* Faulty Fill: the last record is as short as the file.
FillShort(bytes, old) == bytes

Fill(bytes, old) ==
  [i \in 1 .. RecordSize |-> IF i <= Len(bytes) THEN bytes[i] ELSE NUL]

\* Service 12: a record with n bytes of the file in it; the end before the first
\* byte is Done.  The end and a read error, which may come anywhere, are the same
\* EOF to fgetc().
RemoteRead ==
  /\ IF fh = Null
     THEN d0' = Error /\ UNCHANGED <<fh, buf, faulty>>
     ELSE LET all == Smaller(Len(Rest), RecordSize)
          IN  \E n \in 0 .. all :
                /\ d0' = IF n = 0 THEN Done ELSE OK
                /\ buf' = IF n = 0 THEN buf ELSE Fill(SubSeq(Rest, 1, n), buf)
                /\ fh' = [fh EXCEPT !.pos = @ + n]
                /\ faulty' = (faulty \/ n < all)
  /\ UNCHANGED <<host, forgotten>>

\* Service 11: into stdio's buffer.  The results of fputc() are not looked at.
RemoteWrite ==
  /\ d0' = IF fh = Null THEN Error ELSE OK
  /\ fh' = IF fh.mode = "w" THEN [fh EXCEPT !.held = @ \o buf] ELSE fh
  /\ UNCHANGED <<host, forgotten, buf, faulty>>

\* stdio writes what it holds; a full disk takes the first n bytes of it only.
Flushed ==
  IF fh.mode # "w" THEN UNCHANGED <<host, faulty>>
  ELSE \E n \in 0 .. Len(fh.held) :
         /\ host' = [host EXCEPT ![fh.path] = @ \o SubSeq(fh.held, 1, n)]
         /\ faulty' = (faulty \/ n < Len(fh.held))

\* Service 13; the result of fclose() is not looked at.
RemoteClose ==
  /\ Flushed
  /\ fh' = Null
  /\ UNCHANGED <<forgotten, buf, d0>>

------------------------------------------------------------------------------
(* CP/M's file system, which is the guest's own code. *)

LocalOpen ==
  /\ d0' = IF cpm = Absent THEN Error ELSE OK
  /\ UNCHANGED cpm

\* The directory may be full.
LocalMake ==
  \/ d0' = OK /\ cpm' = <<>>
  \/ d0' = Error /\ UNCHANGED cpm

\* Record cr is replaced, or added at the end; the disk may be full.
LocalWrite ==
  \/ /\ d0' = OK
     /\ cpm' = [k \in 1 .. (IF cr < Len(cpm) THEN Len(cpm) ELSE cr + 1) |->
                  IF k = cr + 1 THEN buf ELSE cpm[k]]
     /\ cr' = cr + 1
     /\ UNCHANGED faulty
  \/ /\ cr >= Len(cpm)
     /\ d0' = Error /\ faulty' = TRUE
     /\ UNCHANGED local

LocalRead ==
  LET more == cpm # Absent /\ cr < Len(cpm)
  IN  /\ d0' = IF more THEN OK ELSE Done
      /\ buf' = IF more THEN cpm[cr + 1] ELSE buf
      /\ cr' = IF more THEN cr + 1 ELSE cr
      /\ UNCHANGED cpm

------------------------------------------------------------------------------
(* READ and WRITE. *)

Start(program, first) ==
  /\ pc = "idle" /\ copies < MaxCopies
  /\ copies' = copies + 1
  /\ job' = [op |-> program, host |-> host, cpm |-> cpm]
  /\ message' = "" /\ faulty' = FALSE /\ pc' = first
  /\ UNCHANGED <<host, denied, fh, forgotten, cpm, cr, buf, d0, written>>

StartRead == Start("read", "ropen")
StartWrite == Start("write", "lopen")

\* A failed call ends the program with its message, or it goes on to next.
\* What is open stays open.
GoOn(next, error) ==
  IF d0' = Error THEN pc' = "idle" /\ message' = error ELSE pc' = next /\ UNCHANGED message

ReadOpensRemote ==
  /\ pc = "ropen"
  /\ OpenToRead
  /\ GoOn("open", "remote")
  /\ UNCHANGED <<denied, local, buf, faulty, histories>>

\* A file that exists is used as it is.
ReadOpensLocal ==
  /\ pc = "open"
  /\ LocalOpen
  /\ IF d0' = Error THEN pc' = "make" /\ UNCHANGED cr ELSE pc' = "rread" /\ cr' = 0
  /\ UNCHANGED <<host, denied, fh, forgotten, buf, message, faulty, histories>>

ReadMakesLocal ==
  /\ pc = "make"
  /\ LocalMake
  /\ GoOn("rread", "local")
  /\ cr' = 0
  /\ UNCHANGED <<host, denied, fh, forgotten, buf, faulty, histories>>

ReadReads ==
  /\ pc = "rread"
  /\ RemoteRead
  /\ pc' = IF d0' = OK THEN "writeseq" ELSE "rclose"
  /\ UNCHANGED <<denied, local, message, histories>>

\* The answer of the BDOS is not looked at.
ReadWrites ==
  /\ pc = "writeseq"
  /\ LocalWrite
  /\ pc' = "rread"
  /\ UNCHANGED <<host, denied, fh, forgotten, buf, message, histories>>

\* Faulty WriteOpensLocal: the message does not end the program.
WriteOpensLocalOn ==
  /\ pc = "lopen"
  /\ LocalOpen
  /\ pc' = "ropenw" /\ message' = IF d0' = Error THEN "local" ELSE message
  /\ cr' = 0
  /\ UNCHANGED <<host, denied, fh, forgotten, buf, faulty, histories>>

WriteOpensLocal ==
  /\ pc = "lopen"
  /\ LocalOpen
  /\ GoOn("ropenw", "local")
  /\ cr' = 0
  /\ UNCHANGED <<host, denied, fh, forgotten, buf, faulty, histories>>

WriteOpensRemote ==
  /\ pc = "ropenw"
  /\ OpenToWrite
  /\ GoOn("readseq", "remote")
  /\ UNCHANGED <<denied, local, buf, faulty, histories>>

WriteReads ==
  /\ pc = "readseq"
  /\ LocalRead
  /\ pc' = IF d0' = OK THEN "rwrite" ELSE "rclose"
  /\ UNCHANGED <<host, denied, fh, forgotten, message, faulty, histories>>

\* The answer of the emulator is not looked at.
WriteWrites ==
  /\ pc = "rwrite"
  /\ RemoteWrite
  /\ pc' = "readseq"
  /\ UNCHANGED <<denied, local, message, histories>>

WrittenBy(damaged) ==
  IF job.op # "write" THEN written ELSE IF damaged THEN Absent ELSE cpm

\* Faulty End: the file stays open.
EndOpen ==
  /\ pc = "rclose"
  /\ pc' = "idle"
  /\ written' = WrittenBy(faulty)
  /\ UNCHANGED <<host, denied, fh, forgotten, local, buf, d0, message, faulty, job, copies>>

\* Both close the remote file and the local one, and end without a message.
End ==
  /\ pc = "rclose"
  /\ RemoteClose
  /\ pc' = "idle"
  /\ written' = WrittenBy(faulty')
  /\ UNCHANGED <<denied, local, message, job, copies>>

Program ==
  \/ ReadOpensRemote \/ ReadOpensLocal \/ ReadMakesLocal \/ ReadReads \/ ReadWrites
  \/ WriteOpensLocal \/ WriteOpensRemote \/ WriteReads \/ WriteWrites
  \/ End

------------------------------------------------------------------------------
(* What happens beside them. *)

\* stdio's buffer is full: it goes to the file before the file is closed.
StdioFlushes ==
  /\ fh.held # <<>>
  /\ Flushed
  /\ fh' = [fh EXCEPT !.held = <<>>]
  /\ UNCHANGED <<denied, forgotten, local, buf, d0, pc, message, histories>>

\* The user ends the emulator at its prompt, where exit() writes what stdio
\* holds (that no forgotten handle holds anything is NoWriterForgotten).
Quit ==
  /\ pc # "off"
  /\ Flushed
  /\ fh' = Null /\ pc' = "off"
  /\ UNCHANGED <<denied, forgotten, local, buf, d0, message, histories>>

\* The process is killed.
Kill ==
  /\ pc # "off"
  /\ fh' = Null /\ pc' = "off"
  /\ UNCHANGED <<files, denied, forgotten, cr, buf, d0, message, faulty, histories>>

\* Between copies the user puts other files in place or removes them.  READ and
\* WRITE have nothing to say of these any more.
HostEdit(p, content) ==
  /\ pc = "idle"
  /\ host' = [host EXCEPT ![p] = content]
  /\ job' = [job EXCEPT !.op = "none"]
  /\ written' = IF p = "upper" THEN Absent ELSE written
  /\ UNCHANGED <<denied, fh, forgotten, local, buf, d0, pc, message, faulty, copies>>

CpmEdit(content) ==
  /\ pc = "idle"
  /\ cpm' = content
  /\ job' = [job EXCEPT !.op = "none"]
  /\ UNCHANGED <<host, denied, fh, forgotten, cr, buf, d0, pc, message, written, faulty, copies>>

User ==
  \/ StartRead \/ StartWrite \/ Quit \/ Kill
  \/ \E p \in Path, content \in HostContent \cup {Absent} : HostEdit(p, content)
  \/ \E content \in CpmContent \cup {Absent} : CpmEdit(content)

Init ==
  /\ host \in [Path -> HostContent \cup {Absent}]
  /\ denied \in SUBSET Path
  /\ fh = Null /\ forgotten = <<>>
  /\ cpm \in CpmContent \cup {Absent} /\ cr = 0
  /\ buf = [i \in 1 .. RecordSize |-> NUL]
  /\ d0 = OK /\ pc = "idle" /\ message = ""
  /\ job = [op |-> "none", host |-> host, cpm |-> cpm]
  /\ written = Absent /\ faulty = FALSE
  /\ copies = 0

Next == Program \/ StdioFlushes \/ User

Spec == Init /\ [][Next]_vars

------------------------------------------------------------------------------
(* Properties. *)

Places ==
  {"idle", "off", "ropen", "open", "make", "rread", "writeseq", "lopen", "ropenw",
   "readseq", "rwrite", "rclose"}

TypeOK ==
  /\ host \in [Path -> Seq(Byte) \cup {Absent}] /\ denied \subseteq Path
  /\ fh \in Handle /\ forgotten \in Seq(Handle) /\ Len(forgotten) <= OpenMax
  /\ cpm \in Seq(Record) \cup {Absent} /\ cr \in Nat /\ buf \in Record
  /\ d0 \in {OK, Done, Error}
  /\ pc \in Places /\ message \in {"", "remote", "local"}
  /\ job.op \in {"none", "read", "write"}
  /\ written \in Seq(Record) \cup {Absent} /\ faulty \in BOOLEAN

\* The records of a file with NULs at the end, and the bytes of records.
Records(bytes) ==
  [k \in 1 .. (Len(bytes) + RecordSize - 1) \div RecordSize |->
     [i \in 1 .. RecordSize |->
        LET n == (k - 1) * RecordSize + i
        IN  IF n <= Len(bytes) THEN bytes[n] ELSE NUL]]
Bytes(records) ==
  [n \in 1 .. Len(records) * RecordSize |->
     records[(n - 1) \div RecordSize + 1][((n - 1) % RecordSize) + 1]]

\* What READ leaves: the records of the file and, when CP/M had a longer file,
\* the end of that.
ReadLeaves(bytes, old) ==
  LET new == Records(bytes)
      tail == IF old = Absent THEN 0 ELSE Len(old)
  IN  [k \in 1 .. (IF tail > Len(new) THEN tail ELSE Len(new)) |->
         IF k <= Len(new) THEN new[k] ELSE old[k]]

EndedWell == pc = "idle" /\ message = "" /\ ~faulty

\* A READ or WRITE that ends without a message has moved the whole file, NULs
\* at its end and all, unless a disk failed (main.c:149-175, the loops of read.s
\* and write.s).
CopyIsComplete ==
  EndedWell =>
    /\ job.op = "read" =>
         LET p == IF job.host["upper"] = Absent THEN "lower" ELSE "upper"
         IN  /\ cpm = ReadLeaves(job.host[p], job.cpm)
             /\ host = job.host
    /\ job.op = "write" =>
         /\ host = [job.host EXCEPT !["upper"] = Bytes(job.cpm)]
         /\ cpm = job.cpm

\* A program that ends with a message has changed no file: WRITE does not
\* truncate the host's file before it has something to write, and READ makes no
\* file for nothing (the order of the opens in read.s and write.s).
FailureChangesNothing ==
  pc = "idle" /\ message # "" /\ job.op # "none" => host = job.host /\ cpm = job.cpm

\* READ leaves its handle open when it cannot make the local file, and the next
\* open forgets it (main.c:130): only handles that hold nothing to be written.
NoWriterForgotten == \A i \in 1 .. Len(forgotten) : forgotten[i].mode = "r"

\* What WRITE wrote is what READ brings back, with an older file in small
\* letters beside it (main.c:134-137).
RoundTrip ==
  EndedWell /\ job.op = "read" /\ written # Absent =>
    /\ Len(written) <= Len(cpm)
    /\ \A k \in 1 .. Len(written) : cpm[k] = written[k]
==============================================================================
