----------------------------- MODULE Numbering -----------------------------
(***************************************************************************)
(* Issuing document numbers (NumberingService): an administrator may change *)
(* the pattern of a series and the calendar moves on while transactions     *)
(* take numbers, store the numbered record under a unique index, or roll    *)
(* back.                                                                    *)
(*                                                                          *)
(* A printed number is a sequence of symbols.  The code counts in tens;     *)
(* Base is a parameter so that a small instance counts past its width.      *)
(***************************************************************************)
EXTENDS Naturals, Sequences, FiniteSets, SequencesExt

CONSTANTS
    Worker,     \* requests that store a numbered record
    Branch,     \* branch codes, as sequences of symbols; <<>> where the caller gives none
    Pattern,    \* what an administrator may set: sequences of symbols and tokens
    Calendar,   \* the dates the institution goes through, in order
    FiscalYearStart,  \* <<month, day>>
    Base,       \* of the numerals
    MaxRecords  \* bound on the records stored

VARIABLES
    numberSeries,    \* the pattern of the series
    numberCounters,  \* last value per scope; a scope without a row has 0
    records,         \* what was stored, in order of commit
    today,           \* index into Calendar
    tx               \* the transaction of each worker

vars == <<numberSeries, numberCounters, records, today, tx>>

Token == {"YYYY", "YY", "MM", "FY", "BRANCH"}
SeqToken == <<"SEQ:1", "SEQ:2", "SEQ:3">>  \* the code allows twelve widths
IsSeq(symbol) == symbol \in Range(SeqToken)
Digit == <<"0", "1", "2", "3", "4", "5", "6", "7", "8", "9">>

(* Whether a pattern may be set: exactly one {SEQ:n}. *)
checkNumberPattern(pattern) == Cardinality({k \in DOMAIN pattern : IsSeq(pattern[k])}) = 1

patternUsesBranch(pattern) == \E k \in DOMAIN pattern : pattern[k] = "BRANCH"

(* n in positional notation, without leading zeros. *)
Numeral[n \in Nat] ==
    IF n < Base THEN <<Digit[n + 1]>> ELSE Append(Numeral[n \div Base], Digit[(n % Base) + 1])

padStart(text, width) ==
    IF Len(text) >= width THEN text ELSE [k \in 1..(width - Len(text)) |-> "0"] \o text

(* The calendar year the fiscal year containing the date started in. *)
fiscalYearOf(date) ==
    IF \/ date.month < FiscalYearStart[1]
       \/ date.month = FiscalYearStart[1] /\ date.day < FiscalYearStart[2]
    THEN date.year - 1
    ELSE date.year

numberContextAt(date, branch) ==
    [YYYY |-> Numeral[date.year], YY |-> padStart(Numeral[date.year % (Base * Base)], 2),
     MM |-> padStart(Numeral[date.month], 2), FY |-> Numeral[fiscalYearOf(date)],
     BRANCH |-> branch]

fill(pattern, ctx, seq) ==
    FlattenSeq([k \in DOMAIN pattern |->
        IF IsSeq(pattern[k]) THEN seq
        ELSE IF pattern[k] \in Token THEN ctx[pattern[k]] ELSE <<pattern[k]>>])

(* The counter's key: everything but the sequence, whatever its width. *)
numberScope(pattern, ctx) == fill(pattern, ctx, <<"SEQ">>)

formatNumber(pattern, ctx, n) ==
    LET width == CHOOSE v \in DOMAIN SeqToken : SeqToken[v] \in Range(pattern)
    IN  fill(pattern, ctx, padStart(Numeral[n], width))

-----------------------------------------------------------------------------
Idle == [step |-> "idle"]

(* Every scope a pattern can have on some date in some branch. *)
Scope == {numberScope(p, numberContextAt(Calendar[d], b)) : p \in Pattern, d \in DOMAIN Calendar, b \in Branch}

Init ==
    /\ numberSeries \in Pattern
    /\ numberCounters = [s \in Scope |-> 0]
    /\ records = <<>>
    /\ today = 1
    /\ tx = [w \in Worker |-> Idle]

(* The counter row of a scope is locked by whoever took a number in it. *)
Held(scope) == \E w \in Worker : tx[w].step = "numbered" /\ tx[w].scope = scope

-----------------------------------------------------------------------------
(* NumberingService.setPattern. *)
setPattern(pattern) ==
    /\ checkNumberPattern(pattern)
    /\ pattern # numberSeries
    /\ numberSeries' = pattern
    /\ UNCHANGED <<numberCounters, records, today, tx>>

DayPasses ==
    /\ today < Len(Calendar)
    /\ today' = today + 1
    /\ UNCHANGED <<numberSeries, numberCounters, records, tx>>

(* next: the pattern, the institution and the branch are read first, without *)
(* a lock; the pattern may change before the counter is reached.             *)
ReadPattern(w, branch) ==
    /\ tx[w] = Idle
    /\ Len(records) < MaxRecords
    /\ patternUsesBranch(numberSeries) => branch # <<>>
    /\ LET ctx == numberContextAt(Calendar[today], branch)
       IN  tx' = [tx EXCEPT ![w] = [step |-> "scoped", pattern |-> numberSeries, ctx |-> ctx,
                                    scope |-> numberScope(numberSeries, ctx)]]
    /\ UNCHANGED <<numberSeries, numberCounters, records, today>>

(* Mutant: the last value is read and written back without the row's lock. *)
TakeNumberUnlocked(w) ==
    /\ tx[w].step = "scoped"
    /\ LET n == numberCounters[tx[w].scope] + 1
       IN  tx' = [tx EXCEPT ![w] = [step |-> "numbered", scope |-> tx[w].scope, sequence |-> n,
                                    number |-> formatNumber(tx[w].pattern, tx[w].ctx, n)]]
    /\ UNCHANGED <<numberSeries, numberCounters, records, today>>

(* next: the upsert waits for the row, adds one and keeps the row locked. *)
TakeNumber(w) ==
    /\ tx[w].step = "scoped"
    /\ ~Held(tx[w].scope)
    /\ LET n == numberCounters[tx[w].scope] + 1
       IN  tx' = [tx EXCEPT ![w] = [step |-> "numbered", scope |-> tx[w].scope, sequence |-> n,
                                    number |-> formatNumber(tx[w].pattern, tx[w].ctx, n)]]
    /\ UNCHANGED <<numberSeries, numberCounters, records, today>>

(* The caller stores its record; the unique index refuses a number that some *)
(* record has, and the transaction then fails with its number.               *)
Store(w) ==
    /\ tx[w].step = "numbered"
    /\ \A k \in DOMAIN records : records[k].number # tx[w].number
    /\ records' = Append(records, [scope |-> tx[w].scope, sequence |-> tx[w].sequence,
                                   number |-> tx[w].number])
    /\ numberCounters' = [numberCounters EXCEPT ![tx[w].scope] = tx[w].sequence]
    /\ tx' = [tx EXCEPT ![w] = Idle]
    /\ UNCHANGED <<numberSeries, today>>

(* Any failure hands the number back. *)
Abort(w) ==
    /\ tx[w] # Idle
    /\ tx' = [tx EXCEPT ![w] = Idle]
    /\ UNCHANGED <<numberSeries, numberCounters, records, today>>

Next ==
    \/ \E p \in Pattern : setPattern(p)
    \/ DayPasses
    \/ \E w \in Worker : TakeNumber(w) \/ Store(w) \/ Abort(w)
                         \/ \E b \in Branch : ReadPattern(w, b)

Spec == Init /\ [][Next]_vars

-----------------------------------------------------------------------------
(* The sequence numbers stored under a scope. *)
IssuedIn(scope) == {records[k].sequence : k \in {j \in DOMAIN records : records[j].scope = scope}}

(* What NumberingService.next promises its callers: in every scope the stored  *)
(* sequence numbers are 1 up to the counter with none missing or used twice,   *)
(* in the order the records were committed, and no two records of the series   *)
(* print the same number, also after the pattern changed while numbers were    *)
(* being taken, across years, and after rollbacks.                             *)
NumbersAreExact ==
    /\ \A s \in Scope : IssuedIn(s) = 1..numberCounters[s]
    /\ \A j, k \in DOMAIN records : j < k =>
          /\ records[j].number # records[k].number
          /\ records[j].scope = records[k].scope => records[j].sequence < records[k].sequence

=============================================================================
