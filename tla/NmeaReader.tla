----------------------------- MODULE NmeaReader -----------------------------
(****************************************************************************)
(* nmea_reader_addc() (libgps/gps_huawei.c): the characters of the receiver *)
(* are put together to sentences in a buffer. A sentence that does not fit  *)
(* is skipped to its end.                                                   *)
(*                                                                          *)
(* The reader is initialised once for a thread, which reads one session of  *)
(* the receiver after another, and a session may end in mid-line. (It may   *)
(* begin there too: what comes to the first newline is its first line.)     *)
(****************************************************************************)
EXTENDS Integers

CONSTANTS
    BufferSize,     \* sizeof(r->in) - 1
    MaxLine         \* bound: characters up to a newline, itself included

ASSUME NmeaAssumption == BufferSize \in Nat \ {0} /\ MaxLine \in Nat \ {0}

VARIABLES
    pos, overflow,  \* r->pos, r->overflow
    column,         \* characters this session has sent of the current line
    cut,            \* characters of lines that sessions before it were cut off in
    parsed          \* the last text parsed: the columns it began and ended at, and
                    \* what of cut lines came before it

nmeaVars == <<pos, overflow, column, cut, parsed>>

NmeaInit ==
    /\ pos = 0 /\ overflow = FALSE /\ column = 0 /\ cut = 0
    /\ parsed = [from |-> 1, to |-> 1, cut |-> 0]

(* Mutant: what comes after the overflow is taken for a new sentence. *)
SkipsNothing(newline) == overflow' = FALSE /\ UNCHANGED <<pos, parsed>>

(* The rest of a line too long, to its newline. *)
Skips(newline) == overflow' = ~newline /\ UNCHANGED <<pos, parsed>>

(* The buffer is full: this character is dropped as well, also if it is a   *)
(* newline.                                                                 *)
Overflows == overflow' = TRUE /\ pos' = 0 /\ UNCHANGED parsed

Stores(newline) ==
    /\ pos' = IF newline THEN 0 ELSE pos + 1
    /\ parsed' = IF newline
                 THEN [from |-> column + 1 - pos, to |-> column + 1, cut |-> cut]
                 ELSE parsed
    /\ UNCHANGED overflow

AddC(newline) ==
    /\ \/ overflow /\ Skips(newline)
       \/ ~overflow /\ pos >= BufferSize /\ Overflows
       \/ ~overflow /\ pos < BufferSize /\ Stores(newline)
    /\ column' = (IF newline THEN 0 ELSE column + 1)
    /\ cut' = (IF newline THEN 0 ELSE cut)

(* CMD_STOP, or the receiver is suspended: the session is over and the next *)
(* one's characters come, to the reader as it is.                           *)
NextSession ==
    /\ cut' = cut + column /\ column' = 0
    /\ UNCHANGED <<pos, overflow, parsed>>

(* After gps_cleanup() and gps_init() another thread initialises it.        *)
NmeaReaderInit ==
    /\ pos' = 0 /\ overflow' = FALSE /\ column' = 0 /\ cut' = 0
    /\ UNCHANGED parsed

NmeaNext ==
    \/ AddC(TRUE)
    \/ cut + column + 1 < MaxLine /\ AddC(FALSE)
    \/ NextSession \/ NmeaReaderInit

NmeaSpec == NmeaInit /\ [][NmeaNext]_nmeaVars

-----------------------------------------------------------------------------
(* Properties. *)

(* Every variable keeps to the values the program gives it. *)
NmeaTypeOK ==
    /\ pos \in 0 .. BufferSize /\ overflow \in BOOLEAN
    /\ column \in Nat /\ cut \in Nat /\ cut + column < MaxLine
    /\ parsed \in [from : 1 - MaxLine .. 1, to : 1 .. MaxLine, cut : 0 .. MaxLine - 1]

(* Whatever is parsed fits the buffer and is one whole line, from its first *)
(* column, also after lines too long that were skipped. Only the first line *)
(* of a session has something before it, if the session before was cut off  *)
(* in mid-line: exactly what that had sent of the line.                     *)
ParsedWhole ==
    parsed.from = 1 - parsed.cut /\ parsed.to + parsed.cut <= BufferSize
=============================================================================
