--------------------------- MODULE CrashReporter ----------------------------
(* esp-codes/main/crash_reporter.c: the ring of log characters in RTC       *)
(* memory, written by the log hook, and the report the next boot makes of   *)
(* it. crash_reporter_append and crash_reporter_init are followed statement *)
(* by statement: the board may crash, or another task may log, between any  *)
(* two of them.                                                             *)
EXTENDS Naturals, SequencesExt

CONSTANTS
    RTC_BUF_SIZE, \* characters the ring holds (crash_reporter.c:17)
    Main,         \* the task that runs app_main
    Others,       \* the other tasks that log
    MaxChars,     \* bound: characters logged in a behaviour
    MaxResets     \* bound: resets in a behaviour

ASSUME CrashAssumption ==
    RTC_BUF_SIZE \in Nat \ {0} /\ MaxChars \in Nat /\ MaxResets \in Nat

VARIABLES
    magic,   \* s_magic = CRASH_MAGIC
    buf,     \* s_buf; the k-th character logged is k, and 0 is a cleared place
    pos,     \* s_pos
    wrapped, \* s_wrapped
    pending, \* s_pending; empty: no report
    sender,  \* crash_send_task
    boot,    \* app_main is before, in (at which statement) or after
             \* crash_reporter_init
    reason,  \* the reset was a crash, in the sense of crash_reporter_init
    wpc,     \* the statement each writer is at
    logged,  \* characters logged so far
    kept,    \* the last RTC_BUF_SIZE characters counted since it was cleared
    half,    \* the character stored last, while s_pos does not count it
    torn,    \* what a crash has cut in two since the ring was cleared
    due,     \* kept and torn, when the report was made
    first,   \* the first character of this boot
    overrun, \* a character was stored behind the end of s_buf
    resets

rtc == <<magic, buf, pos, wrapped>>
ghosts == <<kept, half, torn, due, first, overrun>>
Writers == Others \cup {Main}

vars == <<rtc, pending, sender, boot, reason, wpc, logged, ghosts, resets>>

Cleared == [i \in 0 .. RTC_BUF_SIZE - 1 |-> 0]
Idle == [w \in Writers |-> "idle"]
NothingDue == [kept |-> << >>, torn |-> "nothing"]
LastOf(s, n) == SubSeq(s, IF Len(s) > n THEN Len(s) - n + 1 ELSE 1, Len(s))

Init ==
    /\ magic = FALSE /\ buf = Cleared /\ pos = 0 /\ wrapped = FALSE
    /\ pending = << >> /\ sender = "none"
    /\ boot = "early" /\ reason = FALSE
    /\ wpc = Idle
    /\ logged = 0
    /\ kept = << >> /\ half = 0 /\ torn = "nothing" /\ due = NothingDue
    /\ first = 1 /\ overrun = FALSE
    /\ resets = 0

-----------------------------------------------------------------------------
(* crash_reporter_append, one character; without the magic it returns.      *)
(*     s_buf[s_pos] = msg[i];                                               *)
(*     if (++s_pos >= RTC_BUF_SIZE) { s_pos = 0; s_wrapped = 1; }           *)

StoreChar(w) ==
    /\ wpc[w] = "idle"
    /\ w = Main => boot \in {"early", "up"}
    /\ magic
    /\ logged < MaxChars
    /\ logged' = logged + 1
    /\ IF pos < RTC_BUF_SIZE
       THEN /\ buf' = [buf EXCEPT ![pos] = logged + 1]
            /\ half' = logged + 1
            /\ UNCHANGED overrun
       ELSE /\ overrun' = TRUE
            /\ UNCHANGED <<buf, half>>
    /\ wpc' = [wpc EXCEPT ![w] = "stored"]
    /\ UNCHANGED <<magic, pos, wrapped, pending, sender, boot, reason, kept, torn, due, first, resets>>

Advance(w) ==
    /\ wpc[w] = "stored"
    /\ pos' = pos + 1
    /\ kept' = IF half = 0 THEN kept ELSE LastOf(Append(kept, half), RTC_BUF_SIZE)
    /\ half' = 0
    /\ wpc' = [wpc EXCEPT ![w] = IF pos + 1 >= RTC_BUF_SIZE THEN "wrap" ELSE "idle"]
    /\ UNCHANGED <<magic, buf, wrapped, pending, sender, boot, reason, logged,
                   torn, due, first, overrun, resets>>

(* Mutant: only the flag is set. *)
WrapPosForgotten(w) ==
    /\ wpc[w] = "wrap"
    /\ wpc' = [wpc EXCEPT ![w] = "flag"]
    /\ UNCHANGED <<rtc, pending, sender, boot, reason, logged, ghosts, resets>>

WrapPos(w) ==
    /\ wpc[w] = "wrap"
    /\ pos' = 0
    /\ wpc' = [wpc EXCEPT ![w] = "flag"]
    /\ UNCHANGED <<magic, buf, wrapped, pending, sender, boot, reason, logged, ghosts, resets>>

WrapFlag(w) ==
    /\ wpc[w] = "flag"
    /\ wrapped' = TRUE
    /\ wpc' = [wpc EXCEPT ![w] = "idle"]
    /\ UNCHANGED <<magic, buf, pos, pending, sender, boot, reason, logged, ghosts, resets>>

crash_reporter_append(w) == StoreChar(w) \/ Advance(w) \/ WrapPos(w) \/ WrapFlag(w)

-----------------------------------------------------------------------------
(* The ring read from the oldest character on: a wrapped ring from s_pos    *)
(* over its end, one that never wrapped from its start. A copy that reads   *)
(* behind the end of s_buf (after an overrun) is shown as 0.                *)
From(a, b) == [i \in 1 .. b - a |-> IF a + i <= RTC_BUF_SIZE THEN buf[a + i - 1] ELSE 0]

(* Mutant: the two halves the wrong way round. *)
ChronologicalSwapped == IF wrapped THEN From(0, pos) \o From(pos, RTC_BUF_SIZE) ELSE From(0, pos)

Chronological == IF wrapped THEN From(pos, RTC_BUF_SIZE) \o From(0, pos) ELSE From(0, pos)

(* crash_reporter_init: the report is copied out of the ring, then the ring *)
(* is cleared for this boot.                                                *)

InitAt(from, to) == boot = from /\ boot' = to

ReadRing ==
    /\ InitAt("early", "magic")
    /\ wpc[Main] = "idle"
    /\ pending' = IF reason /\ magic /\ (pos > 0 \/ wrapped) THEN Chronological ELSE << >>
    /\ due' = [kept |-> kept, torn |-> torn]
    /\ UNCHANGED <<rtc, sender, reason, wpc, logged, kept, half, torn, first, overrun, resets>>

SetMagic ==
    /\ InitAt("magic", "pos")
    /\ magic' = TRUE
    /\ UNCHANGED <<buf, pos, wrapped, pending, sender, reason, wpc, logged, ghosts, resets>>

ClearPos ==
    /\ InitAt("pos", "wrapped")
    /\ pos' = 0
    /\ UNCHANGED <<magic, buf, wrapped, pending, sender, reason, wpc, logged, ghosts, resets>>

ClearWrapped ==
    /\ InitAt("wrapped", "buf")
    /\ wrapped' = FALSE
    /\ kept' = << >> /\ half' = 0 /\ torn' = "nothing"
    /\ UNCHANGED <<magic, buf, pos, pending, sender, reason, wpc, logged, due, first, overrun, resets>>

ClearBuf ==
    /\ InitAt("buf", "task")
    /\ buf' = Cleared
    /\ UNCHANGED <<magic, pos, wrapped, pending, sender, reason, wpc, logged, ghosts, resets>>

(* xTaskCreate() may fail, and nobody asks. *)
StartSender ==
    /\ InitAt("task", "up")
    /\ sender' \in IF pending = << >> THEN {"none"} ELSE {"none", "waiting"}
    /\ UNCHANGED <<rtc, pending, reason, wpc, logged, ghosts, resets>>

crash_reporter_init ==
    ReadRing \/ SetMagic \/ ClearPos \/ ClearWrapped \/ ClearBuf \/ StartSender

(* crash_send_task, once the daemon is found: the report leaves as log      *)
(* lines.                                                                   *)
crash_send_task ==
    /\ sender = "waiting"
    /\ sender' = "sent"
    /\ UNCHANGED <<rtc, pending, boot, reason, wpc, logged, ghosts, resets>>

(* A reset. After a crash the RTC memory is kept, or loaded afresh as after *)
(* power-on; everything else starts over.                                   *)
Reset(crash, survives) ==
    /\ resets < MaxResets
    /\ resets' = resets + 1
    /\ reason' = crash
    /\ boot' = "early"
    /\ wpc' = Idle
    /\ pending' = << >> /\ sender' = "none" /\ due' = NothingDue
    /\ first' = logged + 1
    /\ IF survives
       THEN /\ UNCHANGED <<rtc, kept, half>>
            /\ torn' = IF boot = "wrapped" THEN "clearing"
                       ELSE IF wpc # Idle /\ torn = "nothing" THEN "append" ELSE torn
       ELSE /\ magic' = FALSE /\ buf' = Cleared /\ pos' = 0 /\ wrapped' = FALSE
            /\ kept' = << >> /\ half' = 0 /\ torn' = "nothing"
    /\ UNCHANGED <<logged, overrun>>

Next ==
    \/ \E w \in Writers : crash_reporter_append(w)
    \/ crash_reporter_init
    \/ crash_send_task
    \/ \E crash, survives \in BOOLEAN : (survives => crash) /\ Reset(crash, survives)

Spec == Init /\ [][Next]_vars

-----------------------------------------------------------------------------
(* The types of the RTC memory and the report: s_pos passes the end of the  *)
(* ring only by the increments a reset cut off from their wrap.             *)
TypeOK ==
    /\ {magic, wrapped, reason, overrun} \subseteq BOOLEAN
    /\ buf \in [0 .. RTC_BUF_SIZE - 1 -> 0 .. MaxChars]
    /\ pos \in 0 .. RTC_BUF_SIZE + MaxResets
    /\ {pending, kept, due.kept} \subseteq Seq(0 .. MaxChars)
    /\ {torn, due.torn} \subseteq {"nothing", "append", "clearing"}
    /\ sender \in {"none", "waiting", "sent"}
    /\ boot \in {"early", "magic", "pos", "wrapped", "buf", "task", "up"}
    /\ wpc \in [Writers -> {"idle", "stored", "wrap", "flag"}]
    /\ {logged, half} \subseteq 0 .. MaxChars
    /\ first \in 1 .. MaxChars + 1
    /\ resets \in 0 .. MaxResets

(* What the report of a board on which one task logs says, by what the      *)
(* crash interrupted. Between two characters: the report is the end of the  *)
(* log as it was written, as much of it as the ring holds. Within a         *)
(* character (crash_reporter.c:35-36): behind its first character, which    *)
(* may be the one that was being stored, it is an end of the log, perhaps a *)
(* short or an empty one. Between the two resets of crash_reporter.c:114    *)
(* and 115: nothing is claimed, nor once a character went behind the ring   *)
(* (see StaysInRing).                                                       *)
ReportIsTail ==
    boot = "up" /\ ~overrun =>
        /\ due.torn = "nothing" => pending = due.kept
        /\ due.torn = "append" =>
               \E n \in {0, 1} : IsSuffix(SubSeq(pending, n + 1, Len(pending)), due.kept)

(* crash_reporter.c:93: the ring is put in chronological order. *)
ReportChronological ==
    \A i, j \in DOMAIN pending : i < j => pending[i] < pending[j]

(* crash_reporter.h:8:  this boot's lines are captured for the next crash,  *)
(* so the report on the last crash holds none of them.                      *)
ReportIsPreviousBoot == \A i \in DOMAIN pending : pending[i] < first

(* crash_reporter.h:15: a line is appended to the ring buffer, nowhere      *)
(* else, whichever tasks log.                                               *)
StaysInRing == ~overrun
=============================================================================
