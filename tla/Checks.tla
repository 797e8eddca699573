------------------------------- MODULE Checks -------------------------------
(***************************************************************************)
(* What the server checks of what a model writes and a student answers,    *)
(* in a Practice turn:                                                     *)
(*                                                                         *)
(*   - the programs of run_python and of a problem's key run in the        *)
(*     sandbox, with a time limit and a limit on their output              *)
(*     (sandbox.py, tools.py);                                             *)
(*   - add_problem stores a problem only when its key is earned: printed   *)
(*     by its code where that is asked for, and its quotation found in     *)
(*     the materials or in what the tools returned (practice.py);          *)
(*   - the reply's quotations and numbers are looked up (quotes.py,        *)
(*     verify.py);                                                         *)
(*   - the student's answers are graded (practice.py).                     *)
(*                                                                         *)
(* A text is the sequence of its words, as quotes._norm leaves them, and   *)
(* the words the server itself puts in (a page mark, "Nothing in d1        *)
(* matches", a result's number) are the one word Aside.  A quotation is    *)
(* the sequence of its fragments, an ellipsis between two.  Numbers are    *)
(* integers in the smallest unit anybody writes, One of it to 1.           *)
(***************************************************************************)
EXTENDS Integers, Sequences, FiniteSets, SequencesExt

CONSTANTS
    Words,       \* the words of a text, and ...
    Docs,        \* the course's documents: [paged, pages]
    Web,         \* the texts the web may return
    Said,        \* the texts the user wrote, and ...
    SaidNumbers, \* ... the numbers in them
    Written,     \* the numbers the model's programs are written with
    Aside,       \* ... a word of the server's own
    MinWords,    \* quotes.MIN_WORDS: fewer words are a term, not a quotation
    MaxPerSet,   \* practice.MAX_PER_SET
    MaxChoices,  \* practice.MAX_CHOICES
    MaxOutput,   \* how much of a program's output is kept (output_chars)
    One,         \* how many units 1 is, and ...
    SI,          \* ... the factors of an SI prefix (verify._SI)
    Parts,       \* what may be left of a printed number that is cut in two
    CutNotes,    \* how much may be cut of an output: a number in its last line
    \* what the model and the student may do: bounds of the check
    Queries,     \* what the model searches for
    Problems,    \* arguments of add_problem: [kind, options, answer, code, quote]
    Prints,      \* the numbers a program may print
    MaxPrints,   \* how many of them
    Replies,     \* a quotation [frags, page] and a number of it: [value, unit of
                 \* its last decimal (0: a fraction, exact), exact, small (no
                 \* claim), beside (what else is on its line), result (the
                 \* numbers behind the line's last "=")]
    Answers,     \* the student's answers: [text, number, figs]
    MaxCalls     \* tool calls of the turn

\* A word is what _norm leaves of one, and a fragment without words is dropped
\* (_fragments): neither a problem's quotation nor a reply's has an empty one.
ASSUME ChecksAssumption ==
    /\ {MinWords, MaxPerSet, MaxChoices, MaxOutput, MaxPrints, MaxCalls} \subseteq Nat
    /\ MinWords > 0 /\ Aside \in Words
    /\ \A d \in Docs : d.paged \in BOOLEAN /\ d.pages \in Seq(Seq(Words))
    /\ Web \union Said \union Queries \subseteq Seq(Words)
    /\ \A a \in Problems : a.kind \in {"number", "choice", "short"} /\ a.code \in BOOLEAN
                          /\ a.quote \in Seq(Seq(Words) \ {<<>>})
    /\ \A r \in Replies : /\ r.quotation.frags \in Seq(Seq(Words) \ {<<>>})
                          /\ r.number.value \in Int /\ r.number.unit \in Nat
                          /\ r.number.exact \in BOOLEAN
    /\ One \in Nat \ {0} /\ SI \subseteq Nat \ {0}
    /\ Prints \union CutNotes \subseteq Int /\ Parts \in [Prints -> SUBSET Int]

VARIABLES
    course,      \* of the turn: is there a sandbox, is it math, may it search
    turn,        \* "working", "stopped" or "replied"
    calls,       \* tool calls so far
    call,        \* the call whose program runs, with its problem
    program,     \* that program's process: its state, output and exit status
    seen,        \* Toolbox.seen: what the tools returned
    asked,       \* history: the queries the model has searched for, ...
    fetched,     \* ... the texts of the web it was shown, ...
    printed,     \* ... the numbers any program of the turn has printed, ...
    whole,       \* ... and has every output reached its tool uncut
    outputs,     \* Toolbox.python_outputs, each as the numbers in it
    set,         \* the problems added, with the program that checked each
    added,       \* how many add_problem has counted
    verdict,     \* the checks stored with the reply
    grade        \* the student's last graded answer

lookups  == <<seen, asked, fetched>>
runs     == <<outputs, printed, whole>>
problems == <<set, added>>
vars     == <<course, turn, calls, call, program, lookups, runs, problems, verdict, grade>>

Idle == [tool |-> "none"]

NoProgram == [state |-> "none", printed |-> <<>>, status |-> "none"]

Init ==
    /\ course \in [compute : BOOLEAN, quantitative : BOOLEAN, web : BOOLEAN]
    /\ turn = "working" /\ calls = 0
    /\ call = Idle /\ program = NoProgram
    /\ seen = {} /\ asked = {} /\ fetched = {}
    /\ outputs = {} /\ printed = {} /\ whole = TRUE
    /\ set = <<>> /\ added = 0
    /\ verdict = {} /\ grade = {}

-----------------------------------------------------------------------------
\* Quotations, word for word.

\* Where fragment f stands in text from position `from' on.
Places(f, text, from) ==
    {i \in from..(Len(text) - Len(f) + 1) : SubSeq(text, i, i + Len(f) - 1) = f}

\* Mutant of In: fragments may come in any order.
In_AnyOrder(frags, text) ==
    \A i \in 1..Len(frags) : Places(frags[i], text, 1) # {}

\* Each fragment at its first place behind the one before (0: it has none).
In(frags, text) ==
    LET Behind(at, f) == IF at = 0 \/ Places(f, text, at) = {} THEN 0
                         ELSE Min(Places(f, text, at)) + Len(f)
    IN  FoldLeft(Behind, 1, frags) # 0

\* The pages whose numbers are in ps, one after the other, each under its mark.
Joined(pages, ps, mark) ==
    FoldLeftDomain(LAMBDA text, p : IF p \in ps THEN text \o mark \o pages[p] ELSE text,
                   <<>>, pages)

\* Pages as the server strings them together for the model.
Strung(d, ps) == Joined(d.pages, ps, <<Aside>>)

Whole(d) == Joined(d.pages, 1..Len(d.pages), IF d.paged THEN <<Aside>> ELSE <<>>)

PagesOf(frags, d) ==
    {p \in 1..Len(d.pages) : d.paged /\ In(frags, d.pages[p])}

PagesWith(frags) == UNION {PagesOf(frags, d) : d \in Docs}

InDocuments(frags) == \E d \in Docs : PagesOf(frags, d) # {} \/ In(frags, Whole(d))

Find(frags) ==
    frags # <<>> /\ (InDocuments(frags) \/ \E text \in seen : In(frags, text))

\* What quotes.extract takes for a quotation.
Quoted(q) == Len(FlattenSeq(q.frags)) >= MinWords

QuoteVerdict(q) ==
    LET pages == PagesWith(q.frags)
    IN  IF ~Quoted(q) \/ (Docs = {} /\ seen = {}) THEN "none"
        ELSE IF ~Find(q.frags) /\ ~(\E text \in Said : In(q.frags, text)) THEN "missing"
        ELSE IF q.page # 0 /\ pages # {} /\ q.page \notin pages THEN "wrong_page"
        ELSE "found"

-----------------------------------------------------------------------------
\* Numbers.

Abs(x) == IF x < 0 THEN -x ELSE x

\* A value is a fraction <<p, q>> of the unit: a number that was printed or
\* given, or the reciprocal of one.
Values(pool) == {<<o, 1>> : o \in pool}

Inverses(pool) == {<<IF o < 0 THEN -(One * One) ELSE One * One, Abs(o)>> : o \in pool \ {0}}

Times(k, v) == <<k * v[1], v[2]>>
Over(k, v)  == <<v[1], k * v[2]>>

\* How far the size of v is from a, in q-ths.
Off(a, v) == Abs(Abs(v[1]) - a * v[2])

\* v, rounded to the last decimal n is written with.
RoundsTo(v, n) == 2 * Off(Abs(n.value), v) <= n.unit * v[2]

\* A restatement in another SI prefix is within half a percent, too, ...
Close(v, a) == 200 * Off(a, v) <= a * v[2]

\* ... and so is a round figure ("about 1,230"): a multiple of ten from a hundred on.
RoundFigure(v, a) ==
    /\ a >= 100 * One /\ a % (10 * One) = 0 /\ v[1] # 0
    /\ 200 * Off(a, v) < IF a * v[2] > Abs(v[1]) THEN a * v[2] ELSE Abs(v[1])

\* A stated number is one of the values, rounded to its last decimal, as a
\* percentage, in another prefix, or as a round figure; a minus sign nobody
\* printed is no match.
Matches(n, values) ==
    \E v \in values :
        /\ ~(n.value < 0 /\ v[1] > 0)
        /\ \/ RoundsTo(v, n) \/ RoundsTo(Times(100, v), n)
           \/ \E k \in SI : \E w \in {Times(k, v), Over(k, v)} :
                 RoundsTo(w, n) /\ Close(w, Abs(n.value))
           \/ RoundFigure(v, Abs(n.value))

\* A fraction may be a reciprocal.
Compared(n, pool) ==
    Matches(n, Values(pool) \union IF n.exact THEN Inverses(pool) ELSE {})

Claim(n) ==
    IF Compared(n, UNION outputs) THEN "matched"
    ELSE IF n.small \/ Compared(n, SaidNumbers \union Written) THEN "none"
    ELSE "unmatched"

\* Working by hand: a line's results were all printed, or the number makes a
\* printed one with another on its line.
Working(n) ==
    \/ LET claims == {Claim(r) : r \in n.result} \ {"none"}
       IN  claims = {"matched"}
    \/ \E other \in n.beside, o \in UNION outputs :
          /\ Abs(o) > 10 * One
          /\ \/ Abs(n.value * other) = Abs(o) * One
             \/ Abs(n.value + other) = Abs(o)

\* Where a number of the reply comes from, in a turn that used run_python.
NumberVerdict(n) ==
    IF \/ outputs = {}
       \/ Claim(n) = "matched" /\ n.small /\ n.value % One = 0
       \/ Claim(n) = "unmatched" /\ Working(n)
    THEN "none" ELSE Claim(n)

Digits(x) == Min({d \in 1..9 : Abs(x) < 10^d})

\* x to n significant figures, halves away from zero.
RoundSig(x, n) ==
    LET p    == IF Digits(x) > n THEN 10^(Digits(x) - n) ELSE 1
        size == ((2 * Abs(x) + p) \div (2 * p)) * p
    IN  IF x < 0 THEN -size ELSE size

\* The key itself, or the key to the figures the answer is written with.  An
\* answer that is no plain decimal (a fraction) has no figures: figs is 0.
NumberMatches(v, figs, key) ==
    v = key \/ (figs >= 2 /\ key # 0 /\ RoundSig(v, figs) = RoundSig(key, figs))

\* What can be written with so many figures and zeros.
Writable(w, figs) == \E e \in 0..8 : w % 10^e = 0 /\ Abs(w) \div 10^e < 10^figs

\* bound: numbers have at most eight digits, and are written with at most nine.
\* The figures of an answer are those it is written with (_sig_figs).
Numbers == -(10^8 - 1)..(10^8 - 1)

ASSUME NumbersAssumption ==
    /\ \A a \in Problems : a.kind = "number" => a.answer.number \subseteq Numbers
    /\ \A g \in Answers : /\ g.number \subseteq Numbers /\ g.figs \in 0..9
                          /\ g.figs >= 2 => \A v \in g.number : Writable(v, g.figs)

-----------------------------------------------------------------------------
\* What the tools return.

\* The tools of the turn's box.
Box == {"add_problem"}
       \union (IF course.web THEN {"web_search", "read_page"} ELSE {})
       \union (IF Docs # {} THEN {"doc_search", "doc_read"} ELSE {})
       \union (IF course.compute THEN {"run_python"} ELSE {})

CanCall(tool) ==
    turn = "working" /\ call = Idle /\ calls < MaxCalls /\ tool \in Box

\* A lookup that went well: its text is kept for the quotation check.
Returns(text, queries, texts) ==
    /\ calls' = calls + 1
    /\ seen' = seen \union {text}
    /\ asked' = asked \union queries /\ fetched' = fetched \union texts
    /\ UNCHANGED <<course, turn, call, program, runs, problems, verdict, grade>>

\* doc_search: the pages with a word of the query, or that nothing matches.
SearchDocument ==
    CanCall("doc_search") /\ \E d \in Docs, query \in Queries :
        LET hits == {p \in 1..Len(d.pages) : Range(d.pages[p]) \cap Range(query) # {}}
        IN  IF hits = {} THEN Returns(<<Aside>> \o query \o <<Aside>>, {query}, {})
            ELSE Returns(Strung(d, hits), {}, {})

\* doc_read: some pages, from the one asked for on.
ReadDocument ==
    CanCall("doc_read") /\ \E d \in Docs : \E p \in 1..Len(d.pages) : \E q \in p..Len(d.pages) :
        Returns(Strung(d, p..q), {}, {})

\* web_search: the results under the query, or that there are none.
SearchWeb ==
    CanCall("web_search") /\ \E query \in Queries, text \in Web \union {<<>>} :
        Returns(<<Aside>> \o query \o <<Aside>> \o text, {query}, {text})

ReadPage == CanCall("read_page") /\ \E text \in Web : Returns(<<Aside>> \o text, {}, {text})

\* A call that fails returns its message, which nothing is kept of.
CallFails ==
    /\ (\E tool \in Box : CanCall(tool)) /\ calls' = calls + 1
    /\ UNCHANGED <<course, turn, call, program, lookups, runs, problems, verdict, grade>>

-----------------------------------------------------------------------------
\* The sandbox.  A program prints and ends by itself, with its status line
\* ("ok" or "error") or without one (killed for its memory: "lost").

Start(c) ==
    /\ call' = c
    /\ program' = [state |-> "running", printed |-> <<>>, status |-> "none"]

Process(p) ==
    /\ program' = p
    /\ UNCHANGED <<course, turn, calls, call, lookups, outputs, whole, problems,
                   verdict, grade>>

Write ==
    /\ program.state = "running" /\ Len(program.printed) < MaxPrints
    /\ \E v \in Prints : /\ Process([program EXCEPT !.printed = Append(@, v)])
                         /\ printed' = printed \union {v}

Exit ==
    /\ program.state = "running"
    /\ \E status \in {"ok", "error", "lost"} :
          Process([program EXCEPT !.state = "exited", !.status = status])
    /\ UNCHANGED printed

\* Out of time, even if the program has just ended: it is killed.
TimeOut ==
    /\ program.state \in {"running", "exited"}
    /\ Process([program EXCEPT !.state = "killed"])
    /\ UNCHANGED printed

\* A cut goes through a number as through any text.
Torn(out, i) ==
    {{}} \union IF i \in DOMAIN out THEN {{w} : w \in Parts[out[i]]} ELSE {}

\* The numbers of an output cut to size.  What says how much was cut is part
\* of it from then on.
Kept(out) ==
    IF Len(out) <= MaxOutput THEN {Range(out)}
    ELSE {Range(SubSeq(out, 1, MaxOutput)) \union torn \union {cut} :
             torn \in Torn(out, MaxOutput + 1), cut \in CutNotes}

\* An output read from a to b: at both ends, part of a number.
Piece(out, a, b) ==
    {kept \union first \union last :
        kept \in Kept(SubSeq(out, a, b)), first \in Torn(out, a - 1),
        last \in Torn(out, IF b - a < MaxOutput THEN b + 1 ELSE 0)}

\* What had been read of a killed program's output is lost with its reader,
\* and some of the rest, from anywhere to anywhere, is read.
Left(out) == UNION {Piece(out, a, b) : a \in 1..(Len(out) + 1), b \in 0..Len(out)}

\* Mutant of Ok: what a program that ran out of time says of itself counts.
Ok_Late == program.status = "ok"

\* A program is fine if it says so at its end, and in time.
Ok == program.status = "ok" /\ program.state # "killed"

-----------------------------------------------------------------------------
\* add_problem.

\* The option an answer names, by its letter first, or by its text.
Choice(a) ==
    IF a.answer.letter \in 1..Len(a.options) THEN {a.answer.letter}
    ELSE LET same == {i \in 1..Len(a.options) : a.options[i].text = a.answer.text}
         IN  IF same = {} THEN {} ELSE {Min(same)}

\* What the student's answer is compared with.
Right(a) == IF a.kind = "choice" THEN a.options[CHOOSE i \in Choice(a) : TRUE]
            ELSE a.answer

\* Its number, if it has one.
Key(a) == IF a.kind = "short" THEN {} ELSE Right(a).number

WellFormed(a) ==
    \/ a.kind = "number" /\ a.answer.number # {}
    \/ a.kind = "choice" /\ Len(a.options) \in 2..MaxChoices /\ Choice(a) # {}
    \/ a.kind = "short"

\* Mutant of Full: the set is full one problem late.
Full_Late == added > MaxPerSet

Full == added >= MaxPerSet

\* The problem is sent back before anything is run.
SentBack(a) ==
    \/ Full
    \/ ~WellFormed(a)
    \/ /\ WellFormed(a) /\ Key(a) # {} /\ ~a.code
       /\ course.compute /\ course.quantitative

RunsCode(a) == course.compute /\ Key(a) # {} /\ a.code

\* What the problem's card says of its key: a quotation that is found counts
\* for more than code, but in a quantitative course.
Mark(a, computed) ==
    IF a.quote # <<>> /\ ~(computed /\ course.quantitative) THEN "quote"
    ELSE IF computed THEN "code"
    ELSE "none"

\* The last check, and the row; saving it may fail.
Store(a, ran) ==
    /\ \/ /\ a.quote = <<>> \/ Find(a.quote)
          /\ set' = Append(set, [problem |-> a, n |-> added + 1, ran |-> ran,
                                 verified |-> Mark(a, ran # NoProgram)])
          /\ added' = added + 1
          /\ seen' = seen \union {<<Aside>>}
       \/ UNCHANGED <<problems, seen>>
    /\ UNCHANGED <<asked, fetched>>

AddProblem ==
    /\ CanCall("add_problem") /\ calls' = calls + 1
    /\ \E a \in Problems :
          \/ /\ SentBack(a)
             /\ UNCHANGED <<call, program, runs, problems, lookups>>
          \/ /\ ~SentBack(a) /\ RunsCode(a)
             /\ Start([tool |-> "add_problem", problem |-> a])
             /\ UNCHANGED <<runs, problems, lookups>>
          \/ /\ ~SentBack(a) /\ RunsCode(a)         \* Python isn't available
             /\ outputs' = outputs \union {{}}
             /\ UNCHANGED <<call, program, printed, whole, problems, lookups>>
          \/ /\ ~SentBack(a) /\ ~RunsCode(a)
             /\ UNCHANGED <<call, program, runs>>
             /\ Store(a, NoProgram)
    /\ UNCHANGED <<course, turn, verdict, grade>>

RunPython ==
    /\ CanCall("run_python")
    /\ calls' = calls + 1
    /\ Start([tool |-> "run_python"])
    /\ UNCHANGED <<course, turn, lookups, runs, problems, verdict, grade>>

\* A run's result reaches the tool that asked for it.
Deliver(out) ==
    /\ outputs' = outputs \union {out} /\ UNCHANGED printed
    /\ whole' = (whole /\ program.state = "exited" /\ Len(program.printed) <= MaxOutput)
    /\ call' = Idle /\ program' = NoProgram
    /\ IF call.tool = "add_problem" /\ Ok /\ Key(call.problem) \subseteq out
       THEN Store(call.problem, program)
       ELSE UNCHANGED <<problems, lookups>>
    /\ UNCHANGED <<course, turn, calls, verdict, grade>>

Finish ==
    \/ program.state = "exited" /\ \E out \in Kept(program.printed) : Deliver(out)
    \/ program.state = "killed" /\ \E out \in Left(program.printed) : Deliver(out)

-----------------------------------------------------------------------------
\* The turn's end, and the student.

\* Stop: the call is cancelled, and its program killed.
Stop ==
    /\ turn = "working" /\ turn' = "stopped"
    /\ call' = Idle /\ program' = NoProgram
    /\ UNCHANGED <<course, calls, lookups, runs, problems, verdict, grade>>

Reply ==
    /\ turn = "working" /\ call = Idle
    /\ turn' = "replied"
    /\ \E r \in Replies :
          verdict' = {[reply |-> r, quote |-> QuoteVerdict(r.quotation),
                       number |-> NumberVerdict(r.number)]}
    /\ UNCHANGED <<course, calls, call, program, lookups, runs, problems, grade>>

\* Whether an answer counts as right; a written one is left to the student.
Graded(a, g) ==
    IF a.kind = "choice" THEN g.text = Right(a).text
    ELSE \E v \in g.number, key \in Key(a) : NumberMatches(v, g.figs, key)

Answer ==
    /\ turn # "working"
    /\ \E i \in 1..Len(set), g \in Answers :
          LET a == set[i].problem
          IN  /\ a.kind = "choice" \/ (a.kind = "number" /\ g.number # {})
              /\ grade' = {[problem |-> a, given |-> g, right |-> Graded(a, g)]}
    /\ UNCHANGED <<course, turn, calls, call, program, lookups, runs, problems, verdict>>

\* The student is done; nothing else happens.
Rest == turn # "working" /\ UNCHANGED vars

Next ==
    \/ SearchDocument \/ ReadDocument \/ SearchWeb \/ ReadPage \/ CallFails
    \/ AddProblem \/ RunPython \/ Write \/ Exit \/ Finish \/ TimeOut
    \/ Stop \/ Reply \/ Answer \/ Rest

Spec == Init /\ [][Next]_vars

-----------------------------------------------------------------------------
(***************************************************************************)
(* Properties.                                                             *)
(***************************************************************************)

\* What may be read in an output that a program never printed.
Scraps == (UNION {Parts[v] : v \in Prints}) \union CutNotes

\* Every variable stays in its range: a set is never longer than allowed, and
\* a program runs only for a call of a turn at work (Stop leaves none behind).
TypeOK ==
    /\ course \in [compute : BOOLEAN, quantitative : BOOLEAN, web : BOOLEAN]
    /\ turn \in {"working", "stopped", "replied"} /\ calls \in 0..MaxCalls
    /\ call.tool \in {"none", "run_python", "add_problem"}
    /\ program.state \in {"none", "running", "exited", "killed"}
    /\ program.status \in {"none", "ok", "error", "lost"}
    /\ Len(program.printed) <= MaxPrints
    /\ program.state # "none" <=> call # Idle
    /\ call # Idle => turn = "working"
    /\ printed \subseteq Prints /\ whole \in BOOLEAN
    /\ \A out \in outputs : out \subseteq Prints \union Scraps
    /\ asked \subseteq Queries /\ fetched \subseteq Web \union {<<>>}
    /\ Len(set) \in 0..MaxPerSet /\ added \in 0..MaxPerSet
    /\ Cardinality(verdict) <= 1 /\ Cardinality(grade) <= 1

\* Fragments can be laid out in a text, in order and without overlap.
Placed(frags, text) ==
    \E at \in [1..Len(frags) -> 1..Len(text)] :
        /\ \A i \in 1..Len(frags) : at[i] \in Places(frags[i], text, 1)
        /\ \A i \in 2..Len(frags) : at[i] >= at[i - 1] + Len(frags[i - 1])

\* A fragment's page and its place on it.
Spots(f, pages) ==
    UNION {{<<p, i>> : i \in Places(f, pages[p], 1)} : p \in 1..Len(pages)}

\* Fragments can be laid out on pages, in order and without overlap, each on
\* one page.
Laid(frags, pages) ==
    \E at \in [1..Len(frags) -> UNION {Spots(frags[i], pages) : i \in 1..Len(frags)}] :
        /\ \A i \in 1..Len(frags) : at[i] \in Spots(frags[i], pages)
        /\ \A i \in 2..Len(frags) :
              \/ at[i - 1][1] < at[i][1]
              \/ /\ at[i - 1][1] = at[i][1]
                 /\ at[i][2] >= at[i - 1][2] + Len(frags[i - 1])

Texts(d) == {Whole(d)} \union (IF d.paged THEN Range(d.pages) ELSE {})

Materials == UNION {Texts(d) : d \in Docs}

\* What others wrote, or the model asked for.
Sources ==
    (UNION {Range(d.pages) \union (IF d.paged THEN {} ELSE {Whole(d)}) : d \in Docs})
        \union fetched \union asked

\* No key a card calls checked was taken on trust: "code" means that the very
\* program sent with the problem ended well and in time, and that the key is
\* in its output: printed by it, if the output was not cut (else it may be
\* what is left of the number at the cut, or how much was cut); "quote" that
\* the words stand, in order, in the materials or in what a tool returned, and
\* none of them is the server's own: each fragment is on a page, in a text of
\* the web, or in a query of the model's (whose echo counts).  A quantitative
\* course with Python has no number without its program.  Failed runs, cut
\* outputs, timeouts, failed saves and full sets in between leave no gap in
\* the set, and the numbers on its cards are 1, 2, 3.
KeysAreEarned ==
    \A i \in 1..Len(set) :
        LET row == set[i]
            a   == row.problem
            out == row.ran.printed
        IN  /\ row.n = i
            /\ row.verified = "code" =>
                  /\ row.ran.state = "exited" /\ row.ran.status = "ok" /\ Key(a) # {}
                  /\ Key(a) \subseteq Range(out) \union
                        IF Len(out) <= MaxOutput THEN {}
                        ELSE Parts[out[MaxOutput + 1]] \union CutNotes
            /\ course.compute /\ course.quantitative /\ Key(a) # {} =>
                  row.verified = "code"
            /\ row.verified = "quote" => a.quote # <<>>
            /\ a.quote # <<>> => \E text \in Materials \union seen : Placed(a.quote, text)
            /\ \A j \in 1..Len(a.quote) :
                  Aside \notin Range(a.quote[j]) =>
                      \E text \in Sources : Places(a.quote[j], text, 1) # {}

\* n is as close to a value as any number written with its last decimal.
Stated(n, v) ==
    LET a == Abs(n.value)
    IN  IF n.unit = 0 THEN Off(a, v) = 0
        ELSE \A m \in {a - n.unit, a + n.unit} : Off(a, v) <= Off(m, v)

\* A reader takes n for the number o: as it is, as a percentage, a reciprocal,
\* in another prefix, or roughly.
Told(n, o) ==
    \E v \in Values({o}) \union IF n.exact THEN Inverses({o}) ELSE {} :
        /\ n.value >= 0 \/ v[1] <= 0
        /\ \/ Stated(n, v) \/ Stated(n, Times(100, v))
           \/ \E k \in SI : \E w \in {Times(k, v), Over(k, v)} :
                 Stated(n, w) /\ Close(w, Abs(n.value))
           \/ RoundFigure(v, Abs(n.value))

\* v, with that many figures, is as close to the key as figures allow, and
\* the larger of two as close.
FairlyRounded(v, figs, key) ==
    LET off == Abs(v - key)
    IN  \A w \in (key - off)..(key + off) :
            Writable(w, figs) => Abs(w - key) = off /\ Abs(w) <= Abs(v)

\* What reader and student are told is what is so.  A quotation is called
\* missing just when its words can be laid out in nothing the model could
\* read, each fragment on one page of a paged document (one that runs over a
\* page break stands nowhere), and on a wrong page just when pages have it and
\* the cited one does not.  A number is called computed only if a program of
\* the turn printed what it tells, or a cut output left it behind; and flagged
\* only if none did, or an output was cut.  An answer is right just when it is
\* the key, or the key fairly rounded to at least two figures, or the right
\* option.
JudgedFairly ==
    /\ \A v \in verdict :
          LET q     == v.reply.quotation
              n     == v.reply.number
              there == \/ \E d \in Docs : IF d.paged THEN Laid(q.frags, d.pages)
                                          ELSE Placed(q.frags, Whole(d))
                       \/ \E text \in seen \union Said : Placed(q.frags, text)
              pages == UNION {{p \in 1..Len(d.pages) : d.paged /\ Placed(q.frags, d.pages[p])}
                              : d \in Docs}
          IN  /\ (\A i \in 1..Len(q.frags) : Aside \notin Range(q.frags[i])) =>
                    /\ v.quote = "missing" => ~there
                    /\ v.quote \in {"found", "wrong_page"} => there
              /\ v.quote = "wrong_page" <=> /\ v.quote # "none"
                                            /\ q.page # 0 /\ pages # {}
                                            /\ q.page \notin pages
              /\ v.number = "matched" =>
                    \E o \in printed \union (IF whole THEN {} ELSE Scraps) : Told(n, o)
              /\ v.number = "unmatched" => ~whole \/ ~\E o \in printed : Told(n, o)
    /\ \A g \in grade :
          LET given == g.given
          IN  g.right <=>
                IF g.problem.kind = "choice" THEN given.text = Right(g.problem).text
                ELSE \E v \in given.number, key \in Key(g.problem) :
                        v = key \/ (given.figs >= 2 /\ FairlyRounded(v, given.figs, key))

=============================================================================
