----------------------------- MODULE TraceQuery -----------------------------
(***************************************************************************)
(* otel-trace's command line and its filtered queries: main's loop over    *)
(* the arguments, append_filters, which writes a WHERE clause with         *)
(* placeholders, bind_filters, which binds values by position, and the two *)
(* commands that use them, spans and list.  OtelTrace adds show.           *)
(*                                                                         *)
(* The arguments are typed as groups: an option with its value, an option  *)
(* without one, or a single word.  A row of spans is a record; Rows is the *)
(* table.                                                                  *)
(***************************************************************************)
EXTENDS Integers, FiniteSets, Sequences, SequencesExt

CONSTANTS
    Rows,       \* the table spans
    Groups,     \* groups of arguments that can be typed
    Dashed,     \* words that begin with '-'
    MaxGroups,  \* bound: groups on a command line
    Numerals,   \* the numbers that words stand for; strtoll makes 0 of others
    Null,       \* a null string
    NowSec,     \* tv_sec when the query is bound
    NsPerSec,   \* 10^9 in the code
    NsPerUs     \* 10^3 in the code

Valued ==
    {"--db", "--service", "--name", "--status", "--since", "--min-duration-us", "--limit"}

Help == {"-h", "--help"}

Commands == {"list", "show", "spans", "stats", "sql"}

ASSUME QueryAssumption ==
    /\ IsFiniteSet(Rows)
    /\ \A r \in Rows : r.start \in Int /\ r.dur \in Int /\ r.error \in BOOLEAN
    /\ \A r, s \in Rows : r.start = s.start => r = s
    /\ \A g \in Groups : g = <<g[1]>> \/ (g = <<g[1], g[2]>> /\ g[1] \in Valued)
    /\ Valued \cup Help \subseteq Dashed
    /\ Null # "error" /\ \A g \in Groups : \A k \in 1..Len(g) : g[k] # Null
    /\ \A w \in DOMAIN Numerals : Numerals[w] \in Int
    /\ MaxGroups \in Nat /\ NowSec \in Nat
    /\ NsPerSec \in Nat \ {0} /\ NsPerUs \in Nat \ {0}

VARIABLES
    typed,     \* the groups as typed
    argv, i,   \* the arguments and main's index
    f,         \* struct filters
    cmd, arg,  \* the command and its argument
    rc, out    \* what main returns and prints
queryVars == <<typed, argv, i, f, cmd, arg, rc, out>>

Running == -1   \* rc while main has not returned

NoFilters ==
    [service |-> Null, name |-> Null, error |-> FALSE, since |-> 0, min |-> 0, limit |-> 0]

Number(w) == IF w \in DOMAIN Numerals THEN Numerals[w] ELSE 0

QueryInit ==
    /\ typed \in UNION {[1..n -> Groups] : n \in 0..MaxGroups}
    /\ argv = FlattenSeq(typed)
    /\ i = 1
    /\ f = NoFilters
    /\ cmd = Null /\ arg = Null /\ rc = Running /\ out = <<>>

-----------------------------------------------------------------------------
(* main's loop.                                                            *)

Parsing == rc = Running /\ i <= Len(argv)

\* What a valued option stores.
Set(g, opt, w) ==
    CASE opt = "--db"      -> g   \* db_path; Fails is a path that leads nowhere
      [] opt = "--service" -> [g EXCEPT !.service = w]
      [] opt = "--name"    -> [g EXCEPT !.name = w]
      [] opt = "--status"  -> [g EXCEPT !.error = (w = "error")]
      [] opt = "--since"   -> [g EXCEPT !.since = Number(w)]
      [] opt = "--min-duration-us" -> [g EXCEPT !.min = Number(w)]
      [] opt = "--limit"   -> [g EXCEPT !.limit = Number(w)]

ParseValued ==
    /\ Parsing /\ argv[i] \in Valued /\ i < Len(argv)
    /\ f' = Set(f, argv[i], argv[i + 1])
    /\ i' = i + 2
    /\ UNCHANGED <<typed, argv, cmd, arg, rc, out>>

\* An unknown option; one without its value is one.
ParseBad ==
    /\ Parsing /\ argv[i] \in Dashed \ Help
    /\ argv[i] \in Valued => i = Len(argv)
    /\ rc' = 2
    /\ UNCHANGED <<typed, argv, i, f, cmd, arg, out>>

ParseHelp ==
    /\ Parsing /\ argv[i] \in Help
    /\ rc' = 0
    /\ UNCHANGED <<typed, argv, i, f, cmd, arg, out>>

\* The first word is the command, the second its argument, others are ignored.
ParseWord ==
    /\ Parsing /\ argv[i] \notin Dashed
    /\ cmd' = IF cmd = Null THEN argv[i] ELSE cmd
    /\ arg' = IF cmd # Null /\ arg = Null THEN argv[i] ELSE arg
    /\ i' = i + 1
    /\ UNCHANGED <<typed, argv, f, rc, out>>

-----------------------------------------------------------------------------
(* The query.                                                              *)

Given(present, x) == IF present THEN <<x>> ELSE <<>>

\* append_filters: the columns with a placeholder, in the order of the text.
Placeholders(g) ==
    Given(g.service # Null, "service") \o Given(g.name # Null, "name")
    \o Given(g.since # 0, "since") \o Given(g.min # 0, "min")

Since(g) == (NowSec - g.since) * NsPerSec

\* Mutant: the two numbers are bound in the other order.
BoundMinFirst(g) ==
    Given(g.service # Null, g.service) \o Given(g.name # Null, g.name)
    \o Given(g.min # 0, g.min * NsPerUs) \o Given(g.since # 0, Since(g))

\* bind_filters: the values, by position.
Bound(g) ==
    Given(g.service # Null, g.service) \o Given(g.name # Null, g.name)
    \o Given(g.since # 0, Since(g)) \o Given(g.min # 0, g.min * NsPerUs)

Meets(row, column, value) ==
    CASE column = "service" -> row.service = value
      [] column = "name"    -> row.name = value
      [] column = "since"   -> row.start >= value
      [] column = "min"     -> row.dur >= value

ErrorsAnyway(row) == TRUE   \* Mutant: --status is forgotten.

\* The clause without a placeholder.
StatusMeets(row) == f.error => row.error

\* SQLite's evaluation of the WHERE clause.
Selected ==
    {row \in Rows :
        /\ StatusMeets(row)
        /\ \A k \in 1..Len(Placeholders(f)) : Meets(row, Placeholders(f)[k], Bound(f)[k])}

Limit == IF f.limit > 0 THEN f.limit ELSE 50

\* ORDER BY start_unix_ns DESC.
NewestFirst(s) == \A j, k \in DOMAIN s : j < k => s[j].start > s[k].start

Newest(items) ==
    LET n == Cardinality(items)
        sorted == CHOOSE s \in [1..n -> items] : NewestFirst(s)
    IN SubSeq(sorted, 1, IF n < Limit THEN n ELSE Limit)

End(row) == row.start + row.dur

\* One line of list: a trace, from those of its spans that were selected.
Summary(rows) ==
    LET first == CHOOSE r \in rows : \A s \in rows : r.start <= s.start
        last  == CHOOSE r \in rows : \A s \in rows : End(r) >= End(s)
    IN [trace |-> first.trace, start |-> first.start, dur |-> End(last) - first.start,
        spans |-> Cardinality(rows), error |-> \E r \in rows : r.error]

Listed == {Summary({s \in Selected : s.trace = r.trace}) : r \in Selected}

Ready(command) == rc = Running /\ i > Len(argv) /\ cmd = command

Spans ==
    /\ Ready("spans")
    /\ out' = Newest(Selected)
    /\ rc' = 0
    /\ UNCHANGED <<typed, argv, i, f, cmd, arg>>

List ==
    /\ Ready("list")
    /\ out' = Newest(Listed)
    /\ rc' = 0
    /\ UNCHANGED <<typed, argv, i, f, cmd, arg>>

\* No database, or a query that SQLite refuses.
Fails ==
    /\ rc = Running /\ i > Len(argv) /\ cmd # Null
    /\ rc' = 1
    /\ UNCHANGED <<typed, argv, i, f, cmd, arg, out>>

\* No command, one that main does not know, or one without its argument.
Usage ==
    /\ rc = Running /\ i > Len(argv)
    /\ cmd \notin Commands \/ (cmd \in {"show", "sql"} /\ arg = Null)
    /\ rc' = 2
    /\ UNCHANGED <<typed, argv, i, f, cmd, arg, out>>

QueryNext == ParseValued \/ ParseBad \/ ParseHelp \/ ParseWord \/ Spans \/ List \/ Fails \/ Usage

QuerySpec == QueryInit /\ [][QueryNext]_queryVars

-----------------------------------------------------------------------------
(* Properties: what the user asked for, read off the groups as typed.      *)

\* Every option is a known one with its value, and help is not asked for.
Clean == \A k \in 1..Len(typed) : Len(typed[k]) = 2 \/ typed[k][1] \notin Dashed

\* The first word is the command.
Asked(command) ==
    /\ Clean
    /\ \E k \in 1..Len(typed) :
         typed[k] = <<command>> /\ \A j \in 1..k - 1 : Len(typed[j]) = 2

\* The value typed last for an option.
Last1(opt) ==
    LET at == {k \in 1..Len(typed) : typed[k][1] = opt}
    IN IF at = {} THEN Null ELSE typed[CHOOSE k \in at : \A j \in at : j <= k][2]

Wanted(row) ==
    /\ Last1("--service") \in {Null, row.service}
    /\ Last1("--name") \in {Null, row.name}
    /\ Last1("--status") = "error" => row.error
    /\ Last1("--since") # Null /\ Number(Last1("--since")) # 0
          => row.start >= (NowSec - Number(Last1("--since"))) * NsPerSec
    /\ Last1("--min-duration-us") # Null /\ Number(Last1("--min-duration-us")) # 0
          => row.dur >= Number(Last1("--min-duration-us")) * NsPerUs

Returned == rc \notin {Running, 1}

AskedLimit ==
    IF Last1("--limit") = Null \/ Number(Last1("--limit")) <= 0 THEN 50
    ELSE Number(Last1("--limit"))

\* In whatever order options and command are typed, repeated or not, spans
\* prints the newest of the spans that meet every option, up to the limit: no
\* value is bound to another option's placeholder, none is taken for a word.
SpansAsAsked ==
    Returned /\ Asked("spans") =>
        LET wanted == {row \in Rows : Wanted(row)}
        IN /\ rc = 0
           /\ \A k \in 1..Len(out) :
                /\ out[k] \in wanted
                /\ Cardinality({row \in wanted : row.start > out[k].start}) = k - 1
           /\ \/ Len(out) = AskedLimit
              \/ Len(out) < AskedLimit /\ Len(out) = Cardinality(wanted)

MinAsked ==
    LET w == Last1("--min-duration-us") IN IF w = Null THEN 0 ELSE Number(w)

\* list prints a trace at most once and no more than the limit, with the start of
\* the first of its spans that meet every option at once; a trace is left out
\* only at the limit, and then it starts before each one listed.
\* With --min-duration-us only half of otel-trace.c:577, "only spans/traces at
\* least US microseconds", is claimed, that each trace listed lasts that long:
\* the code compares spans, and leaves out a trace longer than each of its own.
ListAsAsked ==
    Returned /\ Asked("list") =>
        LET wanted == {row \in Rows : Wanted(row)}
        IN /\ rc = 0 /\ Len(out) <= AskedLimit
           /\ \A j, k \in 1..Len(out) : out[j].trace = out[k].trace => j = k
           /\ MinAsked # 0 => \A k \in 1..Len(out) : \E r, s \in Rows :
                /\ r.trace = out[k].trace /\ s.trace = out[k].trace
                /\ End(s) - r.start >= MinAsked * NsPerUs
           /\ MinAsked = 0 => \A k \in 1..Len(out) : \E row \in wanted :
                /\ row.trace = out[k].trace /\ row.start = out[k].start
                /\ \A s \in wanted : s.trace = row.trace => row.start <= s.start
           /\ MinAsked = 0 => \A row \in wanted :
                \/ \E k \in 1..Len(out) : out[k].trace = row.trace
                \/ /\ Len(out) = AskedLimit
                   /\ \E s \in wanted : /\ s.trace = row.trace
                                        /\ \A k \in 1..Len(out) : s.start < out[k].start
=============================================================================
