------------------------------ MODULE AuditLog ------------------------------
(***************************************************************************)
(* The hash-chained audit trail (src/audit.py), a JSON Lines file.         *)
(*                                                                         *)
(* write_audit_log keeps nothing in memory: each call reads the hash of    *)
(* the last entry back from the last TailBytes bytes of the file.  It runs *)
(* to its end on the event loop's thread, so calls do not interleave; what *)
(* can go wrong is a write that stops half way (the process or the machine *)
(* dies, the disk is full), after which the next line is appended to the   *)
(* unfinished one, and a line that does not fit in those bytes.            *)
(*                                                                         *)
(* A line is the sequence of the pieces written to it: one whole entry, or *)
(* an unfinished piece and what was appended to it later.  A line of more  *)
(* than one piece, or of an unfinished one, does not parse as JSON.  Sizes *)
(* are in bytes and count the newline.  An event stands for all an entry   *)
(* says but its links; the digest of an event and a hash is collision-free.*)
(***************************************************************************)
EXTENDS Naturals, Sequences

CONSTANTS
    EventKinds,     \* number of different events
    Sizes,          \* sizes of an entry's line
    TailBytes,      \* bytes read back from the end of the file
    MaxWrites,      \* bound: calls of write_audit_log
    MaxCuts         \* bound: writes that stop half way

ASSUME AuditAssumption ==
    /\ EventKinds \in Nat \ {0}
    /\ Sizes \subseteq Nat \ {0, 1}
    /\ TailBytes \in Nat
    /\ MaxWrites \in Nat
    /\ MaxCuts \in Nat

Events == 1..EventKinds
Genesis == 0                \* "0" * 64

(* Fault: the entry is written without its digest. *)
Digest_Missing(e, prev) == Genesis

Digest(e, prev) == prev * EventKinds + e

Entry == [event : Events, prev : Nat, hash : Nat \ {Genesis}]
Piece == [from : Nat, whole : BOOLEAN, entry : Entry]

VARIABLES
    file,           \* the lines of AUDIT_LOG_FILE
    eof,            \* its size in bytes
    ended,          \* it is empty or ends with a newline
    logged,         \* the entries whose write completed, in order (auxiliary)
    writes, cuts    \* calls and interrupted calls so far, for the bounds

vars == <<file, eof, ended, logged, writes, cuts>>

TypeOK ==
    /\ file \in Seq(Seq(Piece) \ {<<>>})
    /\ eof \in Nat
    /\ ended \in BOOLEAN
    /\ file = <<>> => ended
    /\ logged \in Seq(Entry)
    /\ writes \in 0..MaxWrites
    /\ cuts \in 0..MaxCuts

Init ==
    /\ file = <<>>
    /\ eof = 0
    /\ ended = TRUE
    /\ logged = <<>>
    /\ writes = 0
    /\ cuts = 0

-----------------------------------------------------------------------------
(* get_last_audit_hash: the last line, of those in the last bytes read,    *)
(* that parses.  Of a line that begins before them only the end is seen.   *)
ChunkStart == IF eof > TailBytes THEN eof - TailBytes ELSE 0
SeenFrom(line) == IF line[1].from > ChunkStart THEN line[1].from ELSE ChunkStart

Parses(line) == LET last == line[Len(line)] IN last.whole /\ last.from = SeenFrom(line)

(* Fault: the lines of the chunk are tried from the first to the last. *)
LastHash_Forward ==
    LET seen == {n \in DOMAIN file : Parses(file[n])}
    IN  IF seen = {} THEN Genesis
        ELSE file[CHOOSE n \in seen : \A m \in seen : n <= m][1].entry.hash

LastHash ==
    LET seen == {n \in DOMAIN file : Parses(file[n])}
        line == file[CHOOSE n \in seen : \A m \in seen : n >= m]
    IN  IF seen = {} THEN Genesis ELSE line[Len(line)].entry.hash

(* write_audit_log, up to the write *)
NewEntry(e) == [event |-> e, prev |-> LastHash, hash |-> Digest(e, LastHash)]

AppendPiece(entry, whole) ==
    LET piece == [from |-> eof, whole |-> whole, entry |-> entry]
    IN  file' = IF ended THEN Append(file, <<piece>>)
                ELSE [file EXCEPT ![Len(file)] = Append(@, piece)]

WriteAuditLog(e, size) ==
    /\ writes < MaxWrites
    /\ writes' = writes + 1
    /\ AppendPiece(NewEntry(e), TRUE)
    /\ eof' = eof + size
    /\ ended' = TRUE
    /\ logged' = Append(logged, NewEntry(e))
    /\ UNCHANGED cuts

(* Only the first bytes of the line reach the file; perhaps all of the     *)
(* entry, but not its newline.                                             *)
CutWrite(e, size, bytes) ==
    /\ writes < MaxWrites /\ cuts < MaxCuts
    /\ writes' = writes + 1 /\ cuts' = cuts + 1
    /\ AppendPiece(NewEntry(e), bytes = size - 1)
    /\ eof' = eof + bytes
    /\ ended' = FALSE
    /\ UNCHANGED logged

Next == \E e \in Events, size \in Sizes :
    \/ WriteAuditLog(e, size)
    \/ \E bytes \in 1..(size - 1) : CutWrite(e, size, bytes)

Spec == Init /\ [][Next]_vars

-----------------------------------------------------------------------------
(* verify_audit_trail *)

Readable(line) == Len(line) = 1 /\ line[1].whole

PrevHash(f, n) == IF n = 1 THEN Genesis ELSE f[n - 1][1].entry.hash

(* Faults: the digest of an entry is not recomputed; a line that does not  *)
(* parse is passed over, as get_audit_logs does.                           *)
Verify_NoDigest(f) ==
    \A n \in DOMAIN f : Readable(f[n]) /\ f[n][1].entry.prev = PrevHash(f, n)

Verify_Lenient(f) ==
    LET good == {n \in DOMAIN f : Readable(f[n])}
    IN  \A n \in good :
            LET e == f[n][1].entry
                earlier == {m \in good : m < n}
                last == CHOOSE m \in earlier : \A k \in earlier : m >= k
            IN  /\ e.prev = IF earlier = {} THEN Genesis ELSE f[last][1].entry.hash
                /\ e.hash = Digest(e.event, e.prev)

Verify(f) ==
    \A n \in DOMAIN f :
        /\ Readable(f[n])
        /\ f[n][1].entry.prev = PrevHash(f, n)
        /\ f[n][1].entry.hash = Digest(f[n][1].entry.event, f[n][1].entry.prev)

-----------------------------------------------------------------------------
(* Properties. *)

(* As long as every line fits in the bytes read back and no write is cut,  *)
(* the trail verifies.                                                     *)
LineEnd(n) == IF n = Len(file) THEN eof ELSE file[n + 1][1].from
LinesFit == \A n \in DOMAIN file : LineEnd(n) <= file[n][1].from + TailBytes

TrailVerifies == cuts = 0 /\ LinesFit => Verify(file)

(* A trail that verifies holds all that was logged, in order: nothing was  *)
(* lost to an unfinished line.  Only a last entry whose newline is missing *)
(* was never reported as written.                                          *)
VerifiedMeansComplete ==
    Verify(file) =>
        /\ Len(file) = IF ended THEN Len(logged) ELSE Len(logged) + 1
        /\ \A n \in DOMAIN logged : file[n][1].entry = logged[n]

(* Tamper evidence: changing what an entry says, removing an entry that is *)
(* not the last or exchanging two neighbours makes verification fail.      *)
Changed(f, n, e) == [f EXCEPT ![n] = <<[@[1] EXCEPT !.entry.event = e]>>]
Without(f, n) == [m \in 1..(Len(f) - 1) |-> IF m < n THEN f[m] ELSE f[m + 1]]
Exchanged(f, n) == [f EXCEPT ![n] = f[n + 1], ![n + 1] = f[n]]

AlterationsShow ==
    Verify(file) =>
        /\ \A n \in DOMAIN file, e \in Events :
              e # file[n][1].entry.event => ~Verify(Changed(file, n, e))
        /\ \A n \in 1..(Len(file) - 1) :
              ~Verify(Without(file, n)) /\ ~Verify(Exchanged(file, n))

(* audit.py:63: each log entry is chained to the previous line's hash.     *)
EachEntryChained ==
    \A n \in 2..Len(logged) : logged[n].prev = logged[n - 1].hash
=============================================================================
