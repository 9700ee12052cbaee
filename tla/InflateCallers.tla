--------------------------- MODULE InflateCallers ---------------------------
(***************************************************************************)
(* The loops of src/miniz.c that drive tinfl_decompress.  They differ in   *)
(* who owns the output (a dictionary that wraps, the caller's buffer, a    *)
(* growing heap block), in how input is refilled, and in what they do with *)
(* each status:                                                            *)
(*   callback  mz_zip_reader_extract_to_callback, which ZipInstaller uses  *)
(*   iter      mz_zip_reader_extract_iter_new / _read / _free              *)
(*   mem       mz_zip_reader_extract_to_mem_no_alloc1                      *)
(*   heap      tinfl_decompress_mem_to_heap                                *)
(*   sink      tinfl_decompress_mem_to_callback                            *)
(*   once      tinfl_decompress_mem_to_mem, a single call                  *)
(*   zlib      mz_inflate on a raw stream, called without MZ_FINISH        *)
(***************************************************************************)
EXTENDS Inflate

CONSTANTS DictSize,    \* TINFL_LZ_DICT_SIZE, a power of two
          HeapStart,   \* 128, the first block of tinfl_decompress_mem_to_heap
          CrcBits,     \* 32
          CrcPoly,     \* 0xEDB88320, as the set of its one bits
          Cases        \* what is extracted, by whom: see Init

VARIABLES
  job,       \* the case: its stream, content, declared size, buffer sizes
  outOfs,    \* out_buf_ofs; m_dict_ofs of mz_inflate before the mask
  avail,     \* out_blk_remain, m_dict_avail: output not handed on yet
  copied,    \* bytes given to the user in this call of iter_read, mz_inflate
  origIn,    \* orig_avail_in
  given,     \* the bytes handed to the callback or the user so far
  crc,       \* file_crc32
  result,    \* "none" until the loop ends, then "ok" or "failed"
  fault      \* a read of the archive or the write callback failed

callerVars == <<job, outOfs, avail, copied, origIn, given, crc, result, fault>>
vars == <<tinflVars, callerVars>>

INSTANCE Crc32

Callers == {"callback", "iter", "mem", "heap", "sink", "once", "zlib"}

\* Streams and contents are bytes, no buffer is empty, and an entry's declared
\* size is that of the content its checksum was taken of.  The register is no
\* narrower than a byte, and the polynomial has a constant term.
ASSUME CallerAssumption ==
  /\ {DictSize, HeapStart, CrcBits} \subseteq Nat \ {0}
  /\ ByteBits <= CrcBits /\ CrcPoly \subseteq Register /\ CrcBits - 1 \in CrcPoly
  /\ \A c \in Cases :
       /\ c.caller \in Callers
       /\ c.stream \in Seq(Byte) /\ c.content \in Seq(Byte) /\ c.declared = Len(c.content)
       /\ c.rbuf \in Nat \ {0} /\ c.ubuf \in Nat \ {0}

Loops(c) == result = "none" /\ job.caller = c
Zeroes(n) == [i \in 1..n |-> 0]

\* mz_inflateInit2: the decoder at its start, nothing of a previous output
\* left.  The zip reader's loops begin with the same values.
InflateInit == TinflInit /\ outOfs = 0 /\ avail = 0

\* A valid stream and its content, or a damaged one; the entry's declared
\* size; the sizes of the read buffer and of the user's buffer.
Init ==
  /\ job \in Cases
  /\ stream = job.stream
  /\ wrap = (job.caller \in {"callback", "iter", "zlib", "sink"})
  /\ buf = Zeroes(CASE wrap -> DictSize [] job.caller \in {"mem", "once"} -> job.declared [] OTHER -> 0)
  /\ moreInput = FALSE /\ status = "idle"
  /\ InflateInit
  /\ copied = 0 /\ origIn = 0
  /\ given = <<>> /\ crc = CrcInit /\ result = "none" /\ fault = FALSE

(***************************************************************************)
(* Calling the coroutine                                                   *)
(***************************************************************************)
\* The read buffer, the archive in memory, the caller's or one of its own,
\* is refilled only when it is empty.
Refilled == IF pos = inEnd THEN Smaller(pos + job.rbuf, Len(stream)) ELSE inEnd

Enter(end, more, cur) ==
  /\ inBeg' = pos /\ inEnd' = end /\ moreInput' = more
  /\ outBeg' = cur /\ outCur' = cur
  /\ status' = "running"
  /\ UNCHANGED <<stream, pos, wrap, r>>

\* The extract loops of the zip reader: the window runs from the current
\* offset to the end of the dictionary, or of the caller's buffer.
ZipCall ==
  /\ \E c \in {"callback", "iter", "mem"} : Loops(c)
  /\ status = "idle"
  /\ avail = 0
  /\ Enter(Refilled, Refilled < Len(stream), IF wrap THEN outOfs % DictSize ELSE outOfs)
  /\ UNCHANGED <<buf, callerVars>>

\* m_pRead returns less than asked for.
ReadFails ==
  /\ \E c \in {"callback", "iter", "mem"} : Loops(c)
  /\ status = "idle" /\ avail = 0 /\ pos = inEnd
  /\ job.faulty
  /\ result' = "failed" /\ fault' = TRUE
  /\ UNCHANGED <<tinflVars, job, outOfs, avail, copied, origIn, given, crc>>

\* The whole input at once; the output into a block that grew since, a
\* dictionary, or the caller's buffer.
WholeCall ==
  /\ \E c \in {"heap", "sink", "once"} : Loops(c)
  /\ status = "idle"
  /\ Enter(Len(stream), FALSE, IF wrap THEN outOfs % DictSize ELSE outOfs)
  /\ UNCHANGED <<buf, callerVars>>

\* mz_inflate: the user passes the next rbuf bytes when it has none left.
ZlibEnter ==
  /\ Loops("zlib") /\ status = "idle" /\ copied = 0
  /\ origIn' = Refilled - pos
  /\ inEnd' = Refilled /\ inBeg' = pos
  /\ status' = IF avail > 0 THEN "spill" ELSE "loop"
  /\ UNCHANGED <<stream, pos, moreInput, outVars, r,
                 job, outOfs, avail, copied, given, crc, result, fault>>

ZlibCall ==
  /\ Loops("zlib") /\ status = "loop"
  /\ Enter(inEnd, TRUE, outOfs % DictSize)
  /\ UNCHANGED <<buf, callerVars>>

(***************************************************************************)
(* What they do with a return                                              *)
(***************************************************************************)
Returned == status \notin {"idle", "loop", "spill", "running"}
KeepsAsking == {"needs_more_input", "has_more_output", "cannot_make_progress"} \* mutant
Wanted ==
  {"needs_more_input", "has_more_output"}
Produced == SubSeq(buf, outBeg + 1, outCur)
Leave == UNCHANGED <<inVars, pos, outVars, r>>

\* The entry's size and CRC-32 are checked once, at the end of the stream.
SizeOnly(ofs, sum) == IF status = "done" /\ ofs = job.declared THEN "ok" ELSE "failed" \* mutant
Verdict(ofs, sum) ==
  IF status = "done" /\ ofs = job.declared /\ sum = Crc(CrcInit, job.content) THEN "ok" ELSE "failed"

\* Output beyond the declared size ends the extraction at once.
TooLong(ofs) == ofs > job.declared

CallbackReturn ==
  /\ Loops("callback") /\ Returned
  /\ given' = given \o Produced
  /\ outOfs' = outOfs + Len(Produced)
  /\ crc' = Crc(crc, Produced)
  /\ fault' = FALSE
  /\ IF TooLong(outOfs') THEN result' = "failed" /\ UNCHANGED status
     ELSE IF status \in Wanted THEN status' = "idle" /\ UNCHANGED result
     ELSE result' = Verdict(outOfs', crc') /\ UNCHANGED status
  /\ Leave /\ UNCHANGED <<job, avail, copied, origIn>>

\* The write callback takes less than it was given.
WriteFails ==
  /\ Loops("callback") \/ Loops("sink")
  /\ Returned /\ Produced # <<>>
  /\ job.faulty
  /\ result' = "failed" /\ fault' = TRUE
  /\ UNCHANGED <<tinflVars, job, outOfs, avail, copied, origIn, given, crc>>

IterReturn ==
  /\ Loops("iter") /\ Returned /\ avail = 0 /\ copied < job.ubuf
  /\ avail' = outCur - outBeg
  /\ IF avail' > 0 THEN UNCHANGED <<status, copied, result>>
     ELSE IF status \in Wanted THEN status' = "idle" /\ UNCHANGED <<copied, result>>
     ELSE \* iter_read returns short, the user calls iter_free
          /\ result' = Verdict(outOfs, crc)
          /\ UNCHANGED <<status, copied>>
  /\ Leave /\ UNCHANGED <<job, outOfs, origIn, given, crc, fault>>

\* Output is handed on in pieces of at most the user's buffer; what is left
\* stays in the dictionary for the next iter_read.
IterCopy ==
  /\ Loops("iter") /\ Returned /\ avail > 0
  /\ LET n == Smaller(job.ubuf - copied, avail)
         from == outOfs % DictSize
         piece == SubSeq(buf, from + 1, from + n)
     IN  /\ given' = given \o piece
         /\ crc' = Crc(crc, piece)
         /\ avail' = avail - n
         /\ outOfs' = outOfs + n
         /\ IF TooLong(outOfs') THEN result' = "failed" /\ UNCHANGED <<status, copied>>
            ELSE IF copied + n < job.ubuf /\ status \notin Wanted
            THEN result' = Verdict(outOfs', crc') /\ UNCHANGED <<status, copied>>
            ELSE /\ copied' = (copied + n) % job.ubuf
                 /\ status' = (IF avail' = 0 THEN "idle" ELSE status)
                 /\ UNCHANGED result
  /\ Leave /\ UNCHANGED <<job, origIn, fault>>

\* Output that does not fit the declared size ends the loop as a failure.
MemReturn ==
  /\ Loops("mem") /\ Returned
  /\ outOfs' = outOfs + Len(Produced)
  /\ given' = given \o Produced
  /\ IF status = "needs_more_input" THEN status' = "idle" /\ UNCHANGED result
     ELSE result' = Verdict(outOfs', Crc(CrcInit, given')) /\ UNCHANGED status
  /\ Leave /\ UNCHANGED <<job, avail, copied, origIn, crc, fault>>

\* Full: twice the room, the old bytes kept (realloc).
HeapReturn ==
  /\ Loops("heap") /\ Returned
  /\ outOfs' = outOfs + Len(Produced)
  /\ given' = given \o Produced
  /\ IF status = "has_more_output"
     THEN /\ buf' = buf \o Zeroes(Larger(Len(buf), HeapStart - Len(buf)))
          /\ status' = "idle"
          /\ UNCHANGED result
     ELSE /\ result' = (IF status = "done" THEN "ok" ELSE "failed")
          /\ UNCHANGED <<buf, status>>
  /\ UNCHANGED <<inVars, pos, wrap, outBeg, outCur, r, job, avail, copied, origIn, crc, fault>>

\* The sink gets each piece before the dictionary is used again; mem_to_mem
\* makes one call and takes nothing but "done".
WholeReturn ==
  /\ Loops("sink") \/ Loops("once")
  /\ Returned
  /\ outOfs' = outOfs + Len(Produced)
  /\ given' = given \o Produced
  /\ fault' = FALSE
  /\ IF status = "has_more_output" /\ job.caller = "sink"
     THEN status' = "idle" /\ UNCHANGED result
     ELSE result' = (IF status = "done" THEN "ok" ELSE "failed") /\ UNCHANGED status
  /\ Leave /\ UNCHANGED <<job, avail, copied, origIn, crc>>

\* Copy from the dictionary to the user; outOfs stops where the user did.
ZlibSpill(n) ==
  LET from == outOfs % DictSize IN
    /\ given' = given \o SubSeq(buf, from + 1, from + n)
    /\ outOfs' = outOfs + n

ZlibFlush ==
  /\ Loops("zlib") /\ status = "spill"
  /\ LET n == Smaller(avail, job.ubuf) IN
       /\ ZlibSpill(n)
       /\ avail' = avail - n
       /\ IF r.state = "done" /\ avail' = 0 THEN result' = "ok" ELSE UNCHANGED result
  /\ status' = "idle"
  /\ Leave /\ UNCHANGED <<job, copied, origIn, crc, fault>>

ZlibReturn ==
  /\ Loops("zlib") /\ Returned
  /\ LET n == Smaller(outCur - outBeg, job.ubuf - copied) IN
       /\ ZlibSpill(n)
       /\ avail' = outCur - outBeg - n
       /\ IF status \notin Wanted \cup {"done"} \/ (status = "needs_more_input" /\ origIn = 0)
          THEN result' = "failed" /\ UNCHANGED <<status, copied>>
          ELSE IF status = "done" \/ pos = inEnd \/ copied + n = job.ubuf \/ avail' > 0
          THEN /\ result' = (IF status = "done" /\ avail' = 0 THEN "ok" ELSE "none")
               /\ status' = "idle" /\ copied' = 0
          ELSE status' = "loop" /\ copied' = copied + n /\ UNCHANGED result
  /\ Leave /\ UNCHANGED <<job, origIn, crc, fault>>

Decompress == result = "none" /\ Coroutine /\ UNCHANGED callerVars
Next ==
  \/ Decompress
  \/ ZipCall \/ ReadFails \/ WholeCall \/ ZlibEnter \/ ZlibCall
  \/ CallbackReturn \/ WriteFails \/ IterReturn \/ IterCopy \/ MemReturn \/ HeapReturn \/ WholeReturn
  \/ ZlibFlush \/ ZlibReturn

Spec == Init /\ [][Next]_vars /\ WF_vars(Next)

(***************************************************************************)
(* Properties                                                              *)
(***************************************************************************)
\* Every pointer of the coroutine stays inside its buffer, the unsigned bit
\* count never goes below zero nor reaches the width of the bit buffer, the
\* tree being built stays inside its array and a repeat of code lengths in
\* its own, on damaged streams too.
TypeOK ==
  /\ 0 <= inBeg /\ inBeg <= pos /\ pos <= inEnd /\ inEnd <= Len(stream)
  /\ 0 <= outBeg /\ outBeg <= outCur /\ outCur <= Len(buf)
  /\ r.state \in States
  /\ r.numBits \in 0..(2 * MaxCode + 4 * ByteBits - 1) /\ r.bitBuf \in 0..(Pow2[r.numBits] - 1)
  /\ r.state = "insert" => -r.treeNext \in 1..(2 * NumSyms[r.type + 1] + 1)
  /\ r.counter <= MaxLens \/ r.state \notin {"rle", "rleExtra", "lensDone"}
  /\ r.counter >= 0 /\ outOfs >= 0 /\ avail >= 0 /\ copied \in 0..job.ubuf
  /\ result \in {"none", "ok", "failed"}

\* A valid stream comes out byte for byte however the input and the output
\* are cut into pieces: what a caller has seen is always a prefix of the
\* content, and the loop accepts it unless the archive or the sink failed.
ExpandsExactly ==
  job.valid =>
    /\ Len(given) <= Len(job.content)
    /\ given = SubSeq(job.content, 1, Len(given))
    /\ (result = "failed") => fault
    /\ (result = "ok") => given = job.content

\* The comment on TINFL_HUFF_DECODE: the decompressor never reads beyond
\* the final byte of the deflate stream, also when other data follow it and
\* the read-ahead has fetched some of that (MZ_ASSERT(!num_bits)).
ReadsNoFurther ==
  (r.state = "done" /\ job.valid) => r.numBits = 0 /\ pos = job.length

\* Damage within CrcBits consecutive bits of the content never passes the zip
\* reader's loops, however the checksum was put together from pieces.
DamageNoticed ==
  (result = "ok" /\ job.caller \in {"callback", "iter", "mem"}) =>
    /\ Len(given) = job.declared
    /\ LET wrong == {i \in DOMAIN given : given[i] # job.content[i]} IN
         wrong # {} => \E i, k \in wrong : (k - i + 1) * ByteBits > CrcBits

\* Every extraction ends, on damaged streams too: what stops a stream that
\* yields output for no input is the declared size.
Ends == <>(result # "none")
=============================================================================
