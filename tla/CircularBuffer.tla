--------------------------- MODULE CircularBuffer ---------------------------
(***************************************************************************)
(* The buffer of a socket (src/include/socket/circular_buffer.h).          *)
(*                                                                         *)
(* The two indexes run freely, as unsigned machine words, and are reduced  *)
(* to the size of the block, a power of two, where they are used; so a     *)
(* full buffer differs from an empty one.  A write that does not fit makes *)
(* the block larger, which first moves the bytes to where the larger block *)
(* expects them; data() moves them too when they are not in one piece.  A  *)
(* buffer that has become empty starts again, with a smaller block.        *)
(***************************************************************************)
EXTENDS Naturals, Sequences

CONSTANTS
  Bytes,     \* the values of a byte
  IniSize,   \* _ini_size
  Spare,     \* how many blocks of that size an empty buffer keeps: 8, as <<3 has it
  Limits,    \* the arguments of the constructor: 0 is no limit
  Word,      \* the values of a machine word, a power of two
  Room,      \* bound: the bytes in a buffer that has no limit
  Junk       \* what a byte of the block is that was never written

\* The powers of two that a word has: the numbers that divide it.
Powers == {n \in 1..Word : Word % n = 0}

\* A power of two is a number whose divisors, but for 1, are even.
BufferAssumption ==
  /\ Word \in Nat \ {0} /\ Word % 2 = 0 /\ \A n \in Powers \ {1} : n % 2 = 0
  /\ IniSize \in Powers /\ Spare \in Nat \ {0} /\ IniSize * Spare \in Powers
  /\ Limits \subseteq Nat /\ \A n \in Limits : 2 * n <= Word
  /\ Room \in Nat /\ 2 * Room <= Word
  /\ Junk \notin Bytes

VARIABLES
  data,   \* the block: its bytes from 0 to _nsize - 1
  nsize, nmax, resev,
  nr, nw,
  call    \* auxiliary: the last call: op, its bytes (given, or handed out) and a count

bufferVars == <<data, nsize, nmax, resev, nr, nw, call>>

Least(a, b) == IF a < b THEN a ELSE b

\* roundup_power_of_2, for a length other than 0.
RoundUp(len) == CHOOSE n \in Powers : n >= len /\ \A k \in Powers : k >= len => n <= k

Size == (nw + Word - nr) % Word

\* The bytes in the order in which read takes them.
Contents == [i \in 1..Size |-> data[(nr + i - 1) % nsize]]

BufferInit ==
  /\ \E limit \in Limits :
       /\ nmax = IF limit = 0 THEN 0 ELSE RoundUp(limit)
       /\ nsize = IF limit = 0 THEN IniSize ELSE Least(IniSize, nmax)
       /\ resev = IF limit = 0 THEN nsize * Spare ELSE Least(nsize * Spare, nmax)
  /\ data = [i \in 0..nsize - 1 |-> Junk]
  /\ nr = 0 /\ nw = 0
  /\ call = [op |-> "none", bytes |-> <<>>, count |-> 0]

-----------------------------------------------------------------------------
\* normalize: the block and the indexes afterwards.  Bytes that wrap, or that end
\* where the block ends, are moved to its start.
Normalized ==
  LET r == nr % nsize
      w == nw % nsize
  IN  IF Size = 0 THEN [data |-> data, nr |-> nr, nw |-> nw]
      ELSE IF r < w THEN [data |-> data, nr |-> r, nw |-> w]
      ELSE [data |-> [i \in 0..nsize - 1 |->
                        IF i < nsize - r THEN data[r + i]
                        ELSE IF i < nsize - r + w THEN data[i - (nsize - r)]
                        ELSE data[i]],
            nr |-> 0, nw |-> Size]

\* resize: the same after the block has len bytes.
Resized(len) ==
  IF len = nsize THEN [data |-> data, nr |-> nr, nw |-> nw]
  ELSE [Normalized EXCEPT !.data = [i \in 0..len - 1 |->
                                      IF i < nsize THEN Normalized.data[i] ELSE Junk]]

\* Mutant: the second memcpy starts at the first byte again.
MutantFilled(b, size, bytes, len) ==
  LET m == b.nw % size
      n == Least(len, size - m)
  IN  [j \in 0..size - 1 |->
         IF m <= j /\ j < m + n THEN bytes[j - m + 1]
         ELSE IF j < len - n THEN bytes[j + 1]
         ELSE b.data[j]]

\* The two memcpy of write: up to the end of the block, and the rest at its start.
Filled(b, size, bytes, len) ==
  LET m == b.nw % size
      n == Least(len, size - m)
  IN  [j \in 0..size - 1 |->
         IF m <= j /\ j < m + n THEN bytes[j - m + 1]
         ELSE IF j < len - n THEN bytes[n + j + 1]
         ELSE b.data[j]]

\* write.  A buffer that may not grow so far takes what it has room for.
Write(bytes) ==
  LET total == Len(bytes)
      rest == nsize - Size
      n == RoundUp(Size + total)
      grows == rest < total /\ (nmax = 0 \/ n <= nmax)
      block == IF grows THEN Resized(n) ELSE [data |-> data, nr |-> nr, nw |-> nw]
      len == IF grows THEN total ELSE Least(total, rest)
      size == IF grows THEN n ELSE nsize
  IN  /\ nmax = 0 => Size + total <= Room
      /\ nsize' = size
      /\ data' = Filled(block, size, bytes, len)
      /\ nr' = block.nr
      /\ nw' = (block.nw + len) % Word
      /\ call' = [op |-> "write", bytes |-> bytes, count |-> len]
      /\ UNCHANGED <<nmax, resev>>

\* clear, with an index that has reached the other one.
Cleared ==
  /\ nr' = 0 /\ nw' = 0
  /\ nsize' = Least(nsize, resev)
  /\ data' = [i \in 0..nsize' - 1 |-> data[i]]

\* The end of read: the buffer forgets len bytes.
Skipped(len) ==
  IF (nr + len) % Word = nw THEN Cleared
  ELSE nr' = (nr + len) % Word /\ UNCHANGED <<data, nsize, nw>>

\* read, with a buffer for the bytes.
Read(wanted) ==
  LET len == Least(wanted, Size)
      m == nr % nsize
      n == Least(len, nsize - m)
      taken == [i \in 1..len |-> IF i <= n THEN data[m + i - 1] ELSE data[i - n - 1]]
  IN  /\ call' = [op |-> "read", bytes |-> taken, count |-> wanted]
      /\ Skipped(len)
      /\ UNCHANGED <<nmax, resev>>

\* data(), and the caller reads len bytes from there, which are in one piece now.
Data(len) ==
  /\ len <= Size
  /\ data' = Normalized.data /\ nr' = Normalized.nr /\ nw' = Normalized.nw
  /\ call' = [op |-> "data", count |-> len,
              bytes |-> [i \in 1..len |-> Normalized.data[Normalized.nr + i - 1]]]
  /\ UNCHANGED <<nsize, nmax, resev>>

\* erase, after data().
EraseBytes(wanted) ==
  /\ Skipped(Least(wanted, Size))
  /\ call' = [op |-> "erase", bytes |-> <<>>, count |-> wanted]
  /\ UNCHANGED <<nmax, resev>>

ClearBytes ==
  /\ Cleared
  /\ call' = [op |-> "clear", bytes |-> <<>>, count |-> 0]
  /\ UNCHANGED <<nmax, resev>>

BufferNext ==
  \/ \E len \in 1..Room :
       \/ \E bytes \in [1..len -> Bytes] : Write(bytes)
       \/ Read(len) \/ Data(len) \/ EraseBytes(len)
  \/ ClearBytes

BufferSpec == BufferInit /\ [][BufferNext]_bufferVars

-----------------------------------------------------------------------------
\* The block and the indexes are what they are declared to be.
BufferTypeOK ==
  /\ nsize \in Powers /\ nmax \in Powers \union {0} /\ resev \in Powers
  /\ data \in [0..nsize - 1 -> Bytes \union {Junk}]
  /\ nr \in 0..Word - 1 /\ nw \in 0..Word - 1 /\ Size <= nsize

\* What the buffer holds is a queue of the bytes that were written, the limit is the
\* one it was made with.
Queue == INSTANCE Fifo WITH queue <- Contents, limit <- nmax

\* However the indexes wrap around the block and around the word, and however the
\* block grows, shrinks and is put straight in between, every call does to the bytes
\* what it does to a queue: write appends the bytes it was given, all of them unless
\* the limit forbids it, and read, data, erase and clear see and take the first ones
\* (circular_buffer.h).
RefinesFifo == Queue!Spec
=============================================================================
