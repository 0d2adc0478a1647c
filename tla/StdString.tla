----------------------------- MODULE StdString -----------------------------
(***************************************************************************)
(* The operations of std::string that HttpServer.cpp and TaskManager.cpp   *)
(* parse texts with.  A text is a sequence of bytes; positions are values  *)
(* of size_t: they count from 0, npos is the largest of them, and their    *)
(* arithmetic wraps round.                                                 *)
(***************************************************************************)
EXTENDS Integers, SequencesExt

CONSTANT NPos   \* std::string::npos, above the length of every text

ASSUME NPosIsLarge == NPos \in Nat /\ NPos > 8

Byte == 0 .. 255

\* FlattenSeq of a sequence that may be long, which is as deep a recursion as
\* its argument is long: chunk by chunk.
ChunkSize == 40
Chunk(seqs, k) ==
  SubSeq(seqs, (k - 1) * ChunkSize + 1, Min({k * ChunkSize, Len(seqs)}))
Concat(seqs) ==
  FlattenSeq([k \in 1 .. (Len(seqs) + ChunkSize - 1) \div ChunkSize |->
                FlattenSeq(Chunk(seqs, k))])

\* The result of an expression of type size_t.
SizeT(n) == n % (NPos + 1)

\* The places at or behind pos where pat begins.
Hits(s, pat, pos) ==
  {i \in pos .. Len(s) - Len(pat) : SubSeq(s, i + 1, i + Len(pat)) = pat}

\* Faulty variant: npos kept in an int.
FindInt(s, pat, pos) ==
  IF Hits(s, pat, pos) = {} THEN -1 ELSE Min(Hits(s, pat, pos))

\* find: the first such place, or npos.
Find(s, pat, pos) ==
  IF Hits(s, pat, pos) = {} THEN NPos ELSE Min(Hits(s, pat, pos))

\* substr throws std::out_of_range if pos is behind the end of s.
SubStrThrows(s, pos) == pos > Len(s)

\* substr: at most n bytes from pos on.
SubStr(s, pos, n) ==
  SubSeq(s, pos + 1, IF n > Len(s) - pos THEN Len(s) ELSE pos + n)
==============================================================================
