--------------------------- MODULE AuditLogProofs ---------------------------
(***************************************************************************)
(* Theorems about the audit trail, for every number and size of entries.   *)
(***************************************************************************)
EXTENDS AuditLog, WellFoundedInduction, TLAPS

LEMMA DigestFacts ==
    ASSUME NEW e \in Events, NEW prev \in Nat
    PROVE  /\ Digest(e, prev) \in Nat \ {Genesis}
           /\ Digest(e, prev) > prev
           /\ \A d \in Events : d # e => Digest(d, prev) # Digest(e, prev)
<1>1. EventKinds \in Nat /\ EventKinds >= 1 /\ e \in Nat /\ e >= 1
  BY AuditAssumption DEF AuditAssumption, Events
<1>2. prev * EventKinds \in Nat /\ prev * EventKinds >= prev
  BY <1>1
<1>3. \A d \in Events : d \in Nat
  BY DEF Events
<1> QED
  BY <1>1, <1>2, <1>3 DEF Digest, Genesis

(* A nonempty set of positions has a last one. *)
LEMMA LastExists ==
    ASSUME NEW k \in Nat, NEW S \in SUBSET (1..k), S # {}
    PROVE  \E n \in S : \A m \in S : n >= m
<1> DEFINE less == {p \in Nat \X Nat : p[1] < p[2]}
           T == {k - n : n \in S}
<1>1. IsWellFoundedOn(less, Nat)
  BY NatLessThanWellFounded DEF OpToRel
<1>2. T \subseteq Nat /\ T # {}
  <2>1. \A n \in S : n \in Nat /\ k - n \in Nat
    OBVIOUS
  <2> QED
    BY <2>1
<1> HIDE DEF less
<1>3. PICK x \in T : \A y \in T : <<y, x>> \notin less
  BY <1>1, <1>2, WFMin
<1>4. PICK n \in S : x = k - n
  BY <1>3
<1>5. ASSUME NEW m \in S PROVE n >= m
  <2>1. k - m \in T /\ k - m \in Nat /\ k - n \in Nat /\ ~(k - m < k - n)
    BY <1>2, <1>3, <1>4 DEF less
  <2> QED
    BY <2>1
<1> QED
  BY <1>5

(* What get_last_audit_hash finds is a hash. *)
LEMMA LastHashType == TypeOK => LastHash \in Nat
<1> SUFFICES ASSUME TypeOK PROVE LastHash \in Nat
  OBVIOUS
<1> DEFINE seen == {n \in DOMAIN file : Parses(file[n])}
           last == CHOOSE n \in seen : \A m \in seen : n >= m
<1>1. CASE seen = {}
  BY <1>1 DEF LastHash, Genesis
<1>2. CASE seen # {}
  <2>1. DOMAIN file = 1..Len(file) /\ Len(file) \in Nat
    BY DEF TypeOK
  <2>2. last \in DOMAIN file
    BY <1>2, <2>1, LastExists
  <2>3. file[last] \in Seq(Piece) /\ file[last] # <<>>
    BY <2>2 DEF TypeOK
  <2>4. file[last][Len(file[last])] \in Piece
    BY <2>3
  <2>5. LastHash = file[last][Len(file[last])].entry.hash
    BY <1>2 DEF LastHash
  <2> QED
    BY <2>4, <2>5 DEF Piece, Entry
<1> QED
  BY <1>1, <1>2

-----------------------------------------------------------------------------
(* Type correctness. *)
LEMMA EntryType ==
    ASSUME TypeOK, NEW e \in Events PROVE NewEntry(e) \in Entry
  BY LastHashType, DigestFacts DEF NewEntry, Entry

LEMMA AppendType ==
    ASSUME TypeOK, NEW entry \in Entry, NEW whole \in BOOLEAN, AppendPiece(entry, whole)
    PROVE  file' \in Seq(Seq(Piece) \ {<<>>}) /\ file' # <<>>
<1> DEFINE piece == [from |-> eof, whole |-> whole, entry |-> entry]
<1>1. piece \in Piece
  BY DEF TypeOK, Piece
<1>2. file' = IF ended THEN Append(file, <<piece>>)
              ELSE [file EXCEPT ![Len(file)] = Append(@, piece)]
  BY DEF AppendPiece
<1> HIDE DEF piece
<1>3. CASE ended
  <2>1. <<piece>> \in Seq(Piece) \ {<<>>}
    BY <1>1
  <2> QED
    BY <1>2, <1>3, <2>1 DEF TypeOK
<1>4. CASE ~ended
  <2>1. file # <<>> /\ Len(file) \in DOMAIN file /\ file \in Seq(Seq(Piece) \ {<<>>})
    BY <1>4 DEF TypeOK
  <2>2. Append(file[Len(file)], piece) \in Seq(Piece) \ {<<>>}
    BY <1>1, <2>1
  <2>3. file' = [file EXCEPT ![Len(file)] = Append(file[Len(file)], piece)]
    BY <1>2, <1>4
  <2> QED
    BY <2>1, <2>2, <2>3
<1> QED
  BY <1>3, <1>4 DEF TypeOK

THEOREM AuditTypeCorrect == Spec => []TypeOK
<1>1. Init => TypeOK
  <2> SUFFICES ASSUME Init PROVE TypeOK
    OBVIOUS
  <2>1. file \in Seq(Seq(Piece) \ {<<>>}) /\ logged \in Seq(Entry)
    BY DEF Init
  <2> QED
    BY <2>1, AuditAssumption DEF Init, TypeOK, AuditAssumption
<1>2. TypeOK /\ [Next]_vars => TypeOK'
  <2> SUFFICES ASSUME TypeOK, [Next]_vars PROVE TypeOK'
    OBVIOUS
  <2>1. ASSUME NEW e \in Events, NEW size \in Sizes, WriteAuditLog(e, size) PROVE TypeOK'
    <3>1. NewEntry(e) \in Entry /\ size \in Nat
      BY EntryType, AuditAssumption DEF AuditAssumption
    <3>2. file' \in Seq(Seq(Piece) \ {<<>>}) /\ file' # <<>>
      BY <2>1, <3>1, AppendType DEF WriteAuditLog
    <3>3. logged' \in Seq(Entry)
      BY <2>1, <3>1 DEF WriteAuditLog, TypeOK
    <3> QED
      BY <2>1, <3>1, <3>2, <3>3, AuditAssumption DEF WriteAuditLog, TypeOK, AuditAssumption
  <2>2. ASSUME NEW e \in Events, NEW size \in Sizes, NEW bytes \in 1..(size - 1),
               CutWrite(e, size, bytes)
        PROVE  TypeOK'
    <3>1. NewEntry(e) \in Entry /\ bytes \in Nat
      BY EntryType, AuditAssumption DEF AuditAssumption
    <3>2. file' \in Seq(Seq(Piece) \ {<<>>}) /\ file' # <<>>
      BY <2>2, <3>1, AppendType DEF CutWrite
    <3>3. writes' \in 0..MaxWrites /\ cuts' \in 0..MaxCuts
      BY <2>2, AuditAssumption DEF CutWrite, TypeOK, AuditAssumption
    <3>4. eof' = eof + bytes /\ ended' = FALSE /\ logged' = logged
      BY <2>2 DEF CutWrite
    <3>a. ended' \in BOOLEAN
      BY <3>4
    <3>b. eof' \in Nat /\ logged' \in Seq(Entry)
      BY <2>2, <3>1 DEF CutWrite, TypeOK
    <3>5. eof' \in Nat /\ logged' \in Seq(Entry) /\ ended' \in BOOLEAN
      BY <3>a, <3>b
    <3>6. file' = <<>> => ended'
      BY <3>2
    <3> QED
      BY <3>2, <3>3, <3>5, <3>6 DEF TypeOK
  <2>3. CASE UNCHANGED vars
    BY <2>3 DEF vars, TypeOK
  <2> QED
    BY <2>1, <2>2, <2>3 DEF Next
<1> QED
  BY <1>1, <1>2, PTL DEF Spec

-----------------------------------------------------------------------------
(* Tamper evidence holds of every file, however it came about: an entry's  *)
(* digest depends on what it says, and is greater than the one before it.  *)
LEMMA AlterationsFail ==
    ASSUME NEW f \in Seq(Seq(Piece) \ {<<>>}), Verify(f)
    PROVE  /\ \A n \in DOMAIN f, e \in Events :
                 e # f[n][1].entry.event => ~Verify(Changed(f, n, e))
           /\ \A n \in 1..(Len(f) - 1) :
                 ~Verify(Without(f, n)) /\ ~Verify(Exchanged(f, n))
<1>1. ASSUME NEW n \in DOMAIN f
      PROVE  /\ f[n] \in Seq(Piece) /\ Len(f[n]) = 1 /\ f[n][1] \in Piece
             /\ f[n][1].entry \in Entry
             /\ f[n][1].entry.prev = PrevHash(f, n)
             /\ f[n][1].entry.hash = Digest(f[n][1].entry.event, f[n][1].entry.prev)
             /\ f[n][1].entry.hash > PrevHash(f, n)
  <2>1. f[n] \in Seq(Piece) /\ f[n] # <<>> /\ Len(f[n]) = 1
    BY DEF Verify, Readable
  <2>2. f[n][1] \in Piece
    BY <2>1
  <2>3. f[n][1].entry \in Entry
    BY <2>2 DEF Piece
  <2>4. /\ f[n][1].entry.prev = PrevHash(f, n)
        /\ f[n][1].entry.hash = Digest(f[n][1].entry.event, f[n][1].entry.prev)
    BY DEF Verify
  <2>5. Digest(f[n][1].entry.event, f[n][1].entry.prev) > f[n][1].entry.prev
    BY <2>3, DigestFacts DEF Entry
  <2> QED
    BY <2>1, <2>2, <2>3, <2>4, <2>5
<1>2. ASSUME NEW n \in DOMAIN f, NEW e \in Events, e # f[n][1].entry.event
      PROVE  ~Verify(Changed(f, n, e))
  <2> DEFINE g == Changed(f, n, e)
             was == f[n][1].entry
  <2>1. was \in Entry /\ was.hash = Digest(was.event, was.prev)
    BY <1>1
  <2>2. n \in DOMAIN g /\ g[n] = <<[f[n][1] EXCEPT !.entry.event = e]>>
    BY DEF Changed
  <2>3. g[n][1].entry = [was EXCEPT !.event = e]
    <3>1. ASSUME NEW p \in Piece
          PROVE  [p EXCEPT !.entry.event = e].entry = [p.entry EXCEPT !.event = e]
      BY DEF Piece
    <3>2. g[n][1] = [f[n][1] EXCEPT !.entry.event = e]
      BY <2>2
    <3> QED
      BY <1>1, <3>1, <3>2
  <2>4. g[n][1].entry.event = e /\ g[n][1].entry.prev = was.prev /\ g[n][1].entry.hash = was.hash
    BY <2>1, <2>3 DEF Entry
  <2>5. Digest(e, was.prev) # Digest(was.event, was.prev)
    BY <1>2, <2>1, DigestFacts DEF Entry
  <2> QED
    BY <2>1, <2>2, <2>4, <2>5 DEF Verify
<1>3. ASSUME NEW n \in 1..(Len(f) - 1)
      PROVE  ~Verify(Without(f, n)) /\ ~Verify(Exchanged(f, n))
  <2>1. /\ n \in DOMAIN f /\ n + 1 \in DOMAIN f /\ n + 1 # 1 /\ (n + 1) - 1 = n
        /\ DOMAIN f = 1..Len(f) /\ Len(f) \in Nat /\ n \in Nat
    OBVIOUS
  <2>2. f[n + 1][1].entry.prev = f[n][1].entry.hash
    BY <1>1, <2>1 DEF PrevHash
  <2>3. f[n][1].entry.hash > PrevHash(f, n) /\ f[n][1].entry.hash \in Nat
    BY <1>1, <2>1 DEF Entry
  <2>3a. PrevHash(f, n) \in Nat /\ f[n][1].entry.hash # PrevHash(f, n)
    BY <1>1, <2>1, <2>3 DEF Entry
  <2>4. ~Verify(Without(f, n))
    <3> DEFINE g == Without(f, n)
    <3>1. n \in DOMAIN g /\ g[n] = f[n + 1]
      BY <2>1 DEF Without
    <3>2. PrevHash(g, n) = PrevHash(f, n)
      BY <2>1 DEF Without, PrevHash
    <3> QED
      BY <2>2, <2>3a, <3>1, <3>2 DEF Verify
  <2>5. ~Verify(Exchanged(f, n))
    <3> DEFINE g == Exchanged(f, n)
    <3>1. n \in DOMAIN g /\ g[n] = f[n + 1]
      BY <2>1 DEF Exchanged
    <3>2. n # 1 => n - 1 \in DOMAIN f /\ n - 1 # n /\ n - 1 # n + 1
      BY <2>1
    <3>3. n # 1 => g[n - 1] = f[n - 1]
      BY <2>1, <3>2 DEF Exchanged
    <3>4. PrevHash(g, n) = PrevHash(f, n)
      BY <3>3 DEF PrevHash
    <3> QED
      BY <2>2, <2>3a, <3>1, <3>4 DEF Verify
  <2> QED
    BY <2>4, <2>5
<1> QED
  BY <1>2, <1>3

(* Altering a trail that verifies shows. *)
THEOREM TamperEvident == Spec => []AlterationsShow
<1>1. TypeOK => AlterationsShow
  BY AlterationsFail DEF AlterationsShow, TypeOK
<1> QED
  BY <1>1, AuditTypeCorrect, PTL

-----------------------------------------------------------------------------
(* What a write does to verification. *)
LEMMA AppendedEntry ==
    ASSUME TypeOK, NEW entry \in Entry, NEW whole \in BOOLEAN, AppendPiece(entry, whole)
    PROVE  /\ ended => /\ Len(file') = Len(file) + 1
                       /\ \A n \in DOMAIN file : file'[n] = file[n]
                       /\ file'[Len(file) + 1] =
                              <<[from |-> eof, whole |-> whole, entry |-> entry]>>
                       /\ Verify(file') => Verify(file)
           /\ ~ended => ~Verify(file')
<1> DEFINE piece == [from |-> eof, whole |-> whole, entry |-> entry]
<1>1. file' = IF ended THEN Append(file, <<piece>>)
              ELSE [file EXCEPT ![Len(file)] = Append(@, piece)]
  BY DEF AppendPiece
<1> HIDE DEF piece
<1>2. CASE ended
  <2>1. /\ Len(file') = Len(file) + 1 /\ Len(file) \in Nat
        /\ DOMAIN file = 1..Len(file) /\ DOMAIN file' = 1..(Len(file) + 1)
        /\ \A n \in DOMAIN file : file'[n] = file[n]
        /\ file'[Len(file) + 1] = <<piece>>
    BY <1>1, <1>2 DEF TypeOK
  <2>2. \A n \in DOMAIN file : n \in DOMAIN file' /\ PrevHash(file', n) = PrevHash(file, n)
    BY <2>1 DEF PrevHash
  <2>3. Verify(file') => Verify(file)
    BY <2>1, <2>2 DEF Verify
  <2> QED
    BY <1>2, <2>1, <2>3 DEF piece
<1>3. CASE ~ended
  <2>1. file # <<>> /\ Len(file) \in DOMAIN file
    BY <1>3 DEF TypeOK
  <2>2. file[Len(file)] \in Seq(Piece) /\ Len(file[Len(file)]) \in Nat \ {0}
    BY <2>1 DEF TypeOK
  <2>3. file'[Len(file)] = Append(file[Len(file)], piece) /\ Len(file) \in DOMAIN file'
    BY <1>1, <1>3, <2>1
  <2>4. Len(file'[Len(file)]) # 1
    BY <2>2, <2>3
  <2> QED
    BY <1>3, <2>3, <2>4 DEF Verify, Readable
<1> QED
  BY <1>2, <1>3 DEF TypeOK

(* Whatever was cut, a trail that verifies is complete. *)
THEOREM VerifiedIsComplete == Spec => []VerifiedMeansComplete
<1>1. Init => VerifiedMeansComplete
  BY DEF Init, VerifiedMeansComplete
<1>2. TypeOK /\ VerifiedMeansComplete /\ [Next]_vars => VerifiedMeansComplete'
  <2> SUFFICES ASSUME TypeOK, VerifiedMeansComplete, [Next]_vars, Verify(file')
               PROVE  /\ Len(file') = IF ended' THEN Len(logged') ELSE Len(logged') + 1
                      /\ \A n \in DOMAIN logged' : file'[n][1].entry = logged'[n]
    BY DEF VerifiedMeansComplete, Verify
  <2>1. ASSUME NEW e \in Events, NEW size \in Sizes, WriteAuditLog(e, size)
        PROVE  /\ Len(file') = IF ended' THEN Len(logged') ELSE Len(logged') + 1
               /\ \A n \in DOMAIN logged' : file'[n][1].entry = logged'[n]
    <3>1. NewEntry(e) \in Entry /\ AppendPiece(NewEntry(e), TRUE)
          /\ ended' = TRUE /\ logged' = Append(logged, NewEntry(e))
      BY <2>1, EntryType DEF WriteAuditLog
    <3>2. /\ ended /\ Verify(file) /\ Len(file') = Len(file) + 1
          /\ \A n \in DOMAIN file : file'[n] = file[n]
          /\ file'[Len(file) + 1] = <<[from |-> eof, whole |-> TRUE, entry |-> NewEntry(e)]>>
      BY <3>1, AppendedEntry
    <3>3. /\ Len(file) = Len(logged) /\ Len(logged) \in Nat
          /\ DOMAIN file = DOMAIN logged /\ DOMAIN logged = 1..Len(logged)
          /\ \A n \in DOMAIN logged : file[n][1].entry = logged[n]
      BY <3>2 DEF VerifiedMeansComplete, TypeOK
    <3>4. /\ Len(logged') = Len(logged) + 1 /\ DOMAIN logged' = 1..(Len(logged) + 1)
          /\ logged'[Len(logged) + 1] = NewEntry(e)
          /\ \A n \in DOMAIN logged : logged'[n] = logged[n]
      BY <3>1, <3>3 DEF TypeOK
    <3>5. file'[Len(logged) + 1][1].entry = NewEntry(e)
      BY <3>2, <3>3
    <3> QED
      BY <3>1, <3>2, <3>3, <3>4, <3>5
  <2>2. ASSUME NEW e \in Events, NEW size \in Sizes, NEW bytes \in 1..(size - 1),
               CutWrite(e, size, bytes)
        PROVE  /\ Len(file') = IF ended' THEN Len(logged') ELSE Len(logged') + 1
               /\ \A n \in DOMAIN logged' : file'[n][1].entry = logged'[n]
    <3>1. NewEntry(e) \in Entry /\ AppendPiece(NewEntry(e), bytes = size - 1)
          /\ ended' = FALSE /\ logged' = logged
      BY <2>2, EntryType DEF CutWrite
    <3>2. /\ ended /\ Verify(file) /\ Len(file') = Len(file) + 1
          /\ \A n \in DOMAIN file : file'[n] = file[n]
      BY <3>1, AppendedEntry
    <3>3. /\ Len(file) = Len(logged) /\ Len(logged) \in Nat
          /\ DOMAIN file = DOMAIN logged
          /\ \A n \in DOMAIN logged : file[n][1].entry = logged[n]
      BY <3>2 DEF VerifiedMeansComplete, TypeOK
    <3> QED
      BY <3>1, <3>2, <3>3
  <2>3. CASE UNCHANGED vars
    BY <2>3 DEF vars, VerifiedMeansComplete
  <2> QED
    BY <2>1, <2>2, <2>3 DEF Next
<1> QED
  BY <1>1, <1>2, AuditTypeCorrect, PTL DEF Spec

-----------------------------------------------------------------------------
(* With lines that fit in the bytes read back and no cut write, the last   *)
(* line is always found, and the next entry is chained to it.              *)
Intact ==
    /\ cuts = 0 => ended
    /\ cuts = 0 /\ LinesFit => Verify(file)

LEMMA LastLineFound ==
    ASSUME TypeOK, Verify(file), LinesFit
    PROVE  LastHash = PrevHash(file, Len(file) + 1)
<1> DEFINE seen == {n \in DOMAIN file : Parses(file[n])}
           last == CHOOSE n \in seen : \A m \in seen : n >= m
<1>0. Len(file) \in Nat /\ DOMAIN file = 1..Len(file) /\ (Len(file) + 1) - 1 = Len(file)
  BY DEF TypeOK
<1>1. CASE file = <<>>
  BY <1>1 DEF LastHash, PrevHash
<1>2. CASE file # <<>>
  <2>1. Len(file) \in DOMAIN file /\ Len(file) + 1 # 1
    BY <1>0, <1>2 DEF TypeOK
  <2> DEFINE line == file[Len(file)]
  <2>2. line \in Seq(Piece) /\ Len(line) = 1 /\ line[1].whole
    BY <2>1 DEF TypeOK, Verify, Readable
  <2>3. line[1] \in Piece
    BY <2>2
  <2>4. line[1].from \in Nat /\ eof <= line[1].from + TailBytes
    BY <2>1, <2>3 DEF Piece, LinesFit, LineEnd
  <2>5. line[1].from = SeenFrom(line)
    BY <2>4, AuditAssumption DEF SeenFrom, ChunkStart, TypeOK, AuditAssumption
  <2>6. Len(file) \in seen
    BY <2>1, <2>2, <2>5 DEF Parses
  <2>7. \A m \in seen : Len(file) >= m
    BY <1>0
  <2>8. last = Len(file)
    <3>1. last \in seen /\ \A m \in seen : last >= m
      BY <2>6, <2>7
    <3> QED
      BY <1>0, <2>6, <2>7, <3>1
  <2>9. LastHash = file[last][Len(file[last])].entry.hash
    BY <2>6 DEF LastHash
  <2>10. LastHash = file[Len(file)][1].entry.hash
    BY <2>2, <2>8, <2>9
  <2>11. PrevHash(file, Len(file) + 1) = file[Len(file)][1].entry.hash
    BY <1>0, <2>1 DEF PrevHash
  <2> QED
    BY <2>10, <2>11
<1> QED
  BY <1>1, <1>2

(* While every line fits and no write is cut, the trail verifies. *)
THEOREM IntactTrailVerifies == Spec => []TrailVerifies
<1>1. Init => Intact
  BY DEF Init, Intact, Verify
<1>2. TypeOK /\ Intact /\ [Next]_vars => Intact'
  <2> SUFFICES ASSUME TypeOK, Intact, [Next]_vars PROVE Intact'
    OBVIOUS
  <2>1. ASSUME NEW e \in Events, NEW size \in Sizes, WriteAuditLog(e, size) PROVE Intact'
    <3> SUFFICES ASSUME cuts' = 0, LinesFit' PROVE Verify(file')
      BY <2>1 DEF Intact, WriteAuditLog, Verify
    <3>1. /\ NewEntry(e) \in Entry /\ AppendPiece(NewEntry(e), TRUE)
          /\ ended /\ cuts = 0
      BY <2>1, EntryType DEF WriteAuditLog, Intact
    <3> DEFINE piece == [from |-> eof, whole |-> TRUE, entry |-> NewEntry(e)]
    <3>2. /\ Len(file') = Len(file) + 1 /\ Len(file) \in Nat
          /\ DOMAIN file = 1..Len(file) /\ DOMAIN file' = 1..(Len(file) + 1)
          /\ \A n \in DOMAIN file : file'[n] = file[n]
          /\ file'[Len(file) + 1] = <<piece>>
      <4>1. /\ Len(file') = Len(file) + 1
            /\ \A n \in DOMAIN file : file'[n] = file[n]
            /\ file'[Len(file) + 1] = <<piece>>
        BY <3>1, AppendedEntry
      <4>2. file' \in Seq(Seq(Piece) \ {<<>>})
        BY <3>1, AppendType
      <4> QED
        BY <4>1, <4>2 DEF TypeOK
    <3>3. LinesFit
      <4>1. file'[Len(file) + 1][1].from = eof
        BY <3>2
      <4>2. ASSUME NEW n \in DOMAIN file
            PROVE  LineEnd(n)' = LineEnd(n) /\ n \in DOMAIN file'
        BY <3>2, <4>1 DEF LineEnd
      <4> QED
        BY <3>2, <4>2 DEF LinesFit
    <3>4. Verify(file) /\ PrevHash(file', Len(file) + 1) = LastHash
      <4>1. PrevHash(file', Len(file) + 1) = PrevHash(file, Len(file) + 1)
        BY <3>2 DEF PrevHash
      <4> QED
        BY <3>1, <3>3, <4>1, LastLineFound DEF Intact
    <3>5. ASSUME NEW n \in DOMAIN file'
          PROVE  /\ Readable(file'[n])
                 /\ file'[n][1].entry.prev = PrevHash(file', n)
                 /\ file'[n][1].entry.hash
                        = Digest(file'[n][1].entry.event, file'[n][1].entry.prev)
      <4>1. CASE n \in DOMAIN file
        <5>1. PrevHash(file', n) = PrevHash(file, n)
          BY <3>2, <4>1 DEF PrevHash
        <5> QED
          BY <3>2, <3>4, <4>1, <5>1 DEF Verify
      <4>2. CASE n = Len(file) + 1
        <5>1. file'[n] = <<piece>>
          BY <3>2, <4>2
        <5>2. file'[n][1] = piece /\ Len(file'[n]) = 1
          BY <5>1
        <5> QED
          BY <3>4, <4>2, <5>2 DEF Readable, NewEntry
      <4> QED
        BY <3>2, <4>1, <4>2
    <3> QED
      BY <3>5 DEF Verify
  <2>2. ASSUME NEW e \in Events, NEW size \in Sizes, NEW bytes \in 1..(size - 1),
               CutWrite(e, size, bytes)
        PROVE  Intact'
    BY <2>2 DEF CutWrite, TypeOK, Intact
  <2>3. CASE UNCHANGED vars
    BY <2>3 DEF vars, Intact, Verify, LinesFit, LineEnd
  <2> QED
    BY <2>1, <2>2, <2>3 DEF Next
<1>3. Intact => TrailVerifies
  BY DEF Intact, TrailVerifies
<1> QED
  BY <1>1, <1>2, <1>3, AuditTypeCorrect, PTL DEF Spec
=============================================================================
