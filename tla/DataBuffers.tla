---------------------------- MODULE DataBuffers ----------------------------
(***************************************************************************)
(* The two buffers of a stream's data (data-queue.ts, data-offset-sorter.ts)*)
(* as operators.  A DataQueue is the sequence of the chunks that were       *)
(* written, a chunk the sequence of its bytes; the entries of an            *)
(* OffsetSorter are chunks with the offset of their first byte, in the      *)
(* order of the linked list.                                                *)
(***************************************************************************)
EXTENDS Integers, Sequences, SequencesExt

Entry(data, offset) == [data |-> data, offset |-> offset]

Take(bytes, n) == SubSeq(bytes, 1, n)
Drop(bytes, n) == SubSeq(bytes, n + 1, Len(bytes))

\* DataQueue.read: at most n bytes from the front, the last chunk split if need be.
QueueRead(queue, n) ==
  LET Chunks(k) == FlattenSeq(SubSeq(queue, 1, k))
      whole == Max({k \in 0 .. Len(queue) : Len(Chunks(k)) <= n})
      part  == Take(queue[whole + 1], n - Len(Chunks(whole)))
  IN  IF whole = Len(queue) THEN [data |-> Chunks(whole), queue |-> <<>>]
      ELSE [data  |-> Chunks(whole) \o part,
            queue |-> <<Drop(queue[whole + 1], Len(part))>> \o Drop(queue, whole + 1)]

\* Mutant: an entry goes to the end of the list.
SorterPushLast(entries, entry) == Append(entries, entry)

\* OffsetSorter.push: before the first entry with a greater offset.
SorterPush(entries, entry) ==
  InsertAt(entries, Min({i \in DOMAIN entries : entries[i].offset > entry.offset}
                        \cup {Len(entries) + 1}), entry)

\* The offset at which the i-th entry ends, or the reader's for none.
EntryEnd(entries, readOffset, i) ==
  IF i = 0 THEN readOffset ELSE entries[i].offset + Len(entries[i].data)

\* The first k entries go on where the one before them ended.  One that starts earlier does not.
InLine(entries, readOffset, k) ==
  \A i \in 1 .. k : entries[i].offset = EntryEnd(entries, readOffset, i - 1)

\* DataAndMoneyStream._read on OffsetSorter.read: such entries, while less than size has been
\* read.
SorterRead(entries, readOffset, size) ==
  LET n == Max({k \in 0 .. Len(entries) :
                  /\ InLine(entries, readOffset, k)
                  /\ \A i \in 1 .. k : i = 1 \/ EntryEnd(entries, readOffset, i - 1) - readOffset < size})
  IN  [data |-> FlattenSeq([i \in 1 .. n |-> entries[i].data]), entries |-> Drop(entries, n)]

\* OffsetSorter.byteLength: how many bytes could be read.
ByteLength(entries, readOffset) ==
  LET n == Max({k \in 0 .. Len(entries) : InLine(entries, readOffset, k)})
  IN  EntryEnd(entries, readOffset, n) - readOffset
=============================================================================
