----------------------------- MODULE GoRuntime ------------------------------
(***************************************************************************)
(* Memory and runtime services of the Go program (wasm_exec.js): run()      *)
(* writes the command line into Go's memory and starts Go, which then      *)
(* prints, and asks for the time.  index.js passes no fs, so that printing  *)
(* goes through the stub of wasm_exec.js to console.log.                    *)
(*                                                                         *)
(* The strings of the command line are given by their lengths, what is     *)
(* printed by its bytes.  A character has one byte, or the two bytes Lead    *)
(* and Trail, as in UTF-8, and is shown decoded by the same bytes; the byte   *)
(* order mark is one here.  The sizes are the code's or smaller: only Base,  *)
(* Limit and Word matter.                                                  *)
(***************************************************************************)
EXTENDS Integers, Sequences, FiniteSets

CONSTANTS
    Argc, Lengths,   \* argv: how many strings, and their lengths in bytes
    Base, Limit,     \* 4096; wasmMinDataAddr, where Go's own data starts
    Word,            \* the values of half an int64: 2^32
    Second,          \* milliseconds in a second
    Times,           \* what the clock may say, in milliseconds
    Texts,           \* what Go writes at a time: any bytes
    Newline, Lead, Trail, Bom,   \* bytes
    Replacement,     \* U+FFFD
    MaxWrites        \* bound of the bytes written

ASSUME GoRuntimeAssumption ==
    /\ Argc \in Nat /\ Lengths \subseteq Nat
    /\ Base \in Nat /\ Base % 8 = 0 /\ Limit \in Nat
    /\ Word \in Nat \ {0, 1} /\ Second \in Nat \ {0}
    /\ Times \subseteq 0 .. Second * Word * (Word \div 2) - 1
    /\ Texts \subseteq Seq(STRING) /\ Replacement \in STRING /\ MaxWrites \in Nat
    /\ Newline \notin {Lead, Trail, Bom, Replacement}
    /\ Lead # Trail /\ Bom \notin {Lead, Trail}

VARIABLES
    argv,         \* the lengths of the command line's strings
    offset,       \* where the next string or pointer goes
    ptrs,         \* argvPtrs
    memory,       \* what was written: address |-> byte of a string, or pointer
    pc,           \* "strings", "table", "check", "running", "failed"
    walltime,     \* the last time asked for, and what Go got for it
    outputBuf,    \* what the stub keeps of an unfinished line
    printed,      \* the lines passed to console.log, each with its newline
    written,      \* history: all that Go wrote, in bytes
    intact        \* history: no write began inside a character or with a Bom

layout == <<argv, offset, ptrs, memory, pc>>
output == <<outputBuf, printed, written, intact>>
runtimeVars == <<layout, walltime, output>>

Nul == <<0, 0>>
Writes(w) == [a \in DOMAIN memory \union DOMAIN w |->
                IF a \in DOMAIN w THEN w[a] ELSE memory[a]]

RuntimeInit ==
    /\ argv \in [1 .. Argc -> Lengths]
    /\ offset = Base /\ ptrs = <<>> /\ memory = [a \in {} |-> Nul]
    /\ pc = "strings"
    /\ walltime = [msec |-> 0, low |-> 0, high |-> 0, rest |-> 0]
    /\ outputBuf = <<>> /\ printed = <<>> /\ written = <<>> /\ intact = TRUE

AlignedDown(n) == n - (n % 8)

Aligned(n) == IF n % 8 = 0 THEN n ELSE n + 8 - (n % 8)

(* strPtr: the string and its NUL, and the next offset. *)
StrPtr ==
    LET i == Len(ptrs) + 1 IN
    /\ pc = "strings" /\ i <= Argc
    /\ memory' = Writes([a \in offset .. offset + argv[i] |->
                           IF a = offset + argv[i] THEN Nul ELSE <<i, a - offset>>])
    /\ ptrs' = Append(ptrs, offset)
    /\ offset' = Aligned(offset + argv[i] + 1)
    /\ UNCHANGED <<argv, pc, walltime, output>>

(* The pointers, a null after the arguments and one after the environment,
   which is empty: go.env is never set. *)
Table ==
    LET all == ptrs \o <<0, 0>> IN
    /\ pc = "strings" /\ Len(ptrs) = Argc
    /\ memory' = Writes([k \in {offset + 8 * (j - 1) : j \in DOMAIN all} |->
                           <<0, all[(k - offset) \div 8 + 1]>>])
    /\ ptrs' = all
    /\ offset' = offset + 8 * Len(all)
    /\ pc' = "check"
    /\ UNCHANGED <<argv, walltime, output>>

TooLongWithoutTable == offset - 8 * Len(ptrs) >= Limit

(* Go's data must be out of reach, else run() throws. *)
TooLong == offset >= Limit

Start ==
    /\ pc = "check"
    /\ pc' = IF TooLong THEN "failed" ELSE "running"
    /\ UNCHANGED <<argv, offset, ptrs, memory, walltime, output>>

-----------------------------------------------------------------------------
HighOf32Bits(n, d) == 0

(* setInt64 of n/d, not negative unless d = 1 *)
Low(n, d) == (n \div d) % Word
High(n, d) == (n \div (d * Word)) % Word

(* getInt64: the high word is signed. *)
GetInt64(low, high) == low + Word * (IF 2 * high >= Word THEN high - Word ELSE high)

(* runtime.walltime *)
Walltime(msec) ==
    /\ pc = "running"
    /\ walltime' = [msec |-> msec, low |-> Low(msec, Second), high |-> High(msec, Second),
                    rest |-> msec % Second]
    /\ UNCHANGED <<layout, output>>

FirstNewline(s) == CHOOSE i \in 0 .. Len(s) :
    /\ IF i = 0 THEN \A k \in 1 .. Len(s) : s[k] # Newline ELSE s[i] = Newline
    /\ \A k \in 1 .. i - 1 : s[k] # Newline

(* lastIndexOf("\n"), 0 if there is none *)
LastNewline(s) == CHOOSE i \in 0 .. Len(s) :
    /\ i # 0 => s[i] = Newline
    /\ \A k \in i + 1 .. Len(s) : s[k] # Newline

(* The byte at i lacks the rest of its character. *)
Broken(s, i) ==
    \/ s[i] = Lead  /\ (i = Len(s) \/ s[i + 1] # Trail)
    \/ s[i] = Trail /\ (i = 1 \/ s[i - 1] # Lead)

Characters(s) == [i \in DOMAIN s |-> IF Broken(s, i) THEN Replacement ELSE s[i]]

(* decoder.decode(buf) takes the bytes of one write for a whole text: what is
   broken is replaced, a byte order mark in front is dropped. *)
Decode(s) == IF s # <<>> /\ s[1] = Bom THEN Tail(Characters(s)) ELSE Characters(s)

(* Bytes that may come in two writes: t starts a text of its own. *)
Apart(s, t) ==
    t # <<>> => /\ t[1] # Bom
                /\ ~ (s # <<>> /\ s[Len(s)] = Lead /\ t[1] = Trail)

(* runtime.wasmWrite, with writeSync of the stub: whatever the descriptor. *)
WasmWrite(text) ==
    LET buf == outputBuf \o Decode(text)
        nl == LastNewline(buf) IN
    /\ pc = "running" /\ Len(written) + Len(text) <= MaxWrites
    /\ printed' = printed \o SubSeq(buf, 1, nl)
    /\ outputBuf' = SubSeq(buf, nl + 1, Len(buf))
    /\ written' = written \o text
    /\ intact' = (intact /\ Apart(written, text))
    /\ UNCHANGED <<layout, walltime>>

RuntimeNext ==
    \/ StrPtr \/ Table \/ Start
    \/ \E msec \in Times : Walltime(msec)
    \/ \E text \in Texts : WasmWrite(text)

-----------------------------------------------------------------------------
(* Correctness.                                                            *)

StringAt(i, a) == /\ \A k \in 0 .. argv[i] - 1 : memory[a + k] = <<i, k>>
                  /\ memory[a + argv[i]] = Nul

(* Go finds every argument whole and terminated through the table that run()
   passes it, which is aligned and terminated too: no string is written over
   by a later one or by the table. *)
ArgumentsIntact ==
    pc \in {"check", "running"} =>
        LET table == offset - 8 * Len(ptrs) IN
        /\ table % 8 = 0
        /\ \A i \in 1 .. Argc : StringAt(i, memory[table + 8 * (i - 1)][2])
        /\ memory[table + 8 * Argc] = Nul

(* Go runs only if nothing was written where its own data starts. *)
GoDataUntouched == pc = "running" => \A a \in DOMAIN memory : a + 7 < Limit

(* The time Go puts together from its two results is the time of the clock,
   to the millisecond and past 2^32 seconds. *)
WalltimeExact ==
    GetInt64(walltime.low, walltime.high) * Second + walltime.rest = walltime.msec

Newlines(s) == Cardinality({i \in DOMAIN s : s[i] = Newline})

(* What Go prints appears in order, once, and in full lines, an unfinished one
   being held back: as the characters of all its bytes, as long as no write cuts
   a character in two or starts with a byte order mark.  If one does, as the
   decoder takes each write for itself, characters are lost, but no line is. *)
OutputInOrder ==
    /\ intact => printed \o outputBuf = Characters(written)
    /\ Newlines(printed) = Newlines(written)
    /\ printed # <<>> => printed[Len(printed)] = Newline
    /\ \A i \in DOMAIN outputBuf : outputBuf[i] # Newline

=============================================================================
