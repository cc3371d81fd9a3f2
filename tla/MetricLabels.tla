---------------------------- MODULE MetricLabels ----------------------------
(***************************************************************************)
(* The metric label linter (scripts/check_metric_labels.py): it fails when *)
(* a label value of a metric call may take an unbounded set of values,     *)
(* except for the expressions of an allowlist.  A source file is a         *)
(* sequence of lines: bindings of one identifier, metric calls, comments.  *)
(* A label value is the kind that the expressions of the linter tell       *)
(* apart.  Developers edit the file, the constants of other files and the  *)
(* allowlist, and run the linter, with --update or without.                *)
(***************************************************************************)
EXTENDS Naturals, Sequences, FiniteSets, SequencesExt

CONSTANTS
    Lines,          \* the lines developers write
    MaxLines,       \* the length of the file
    Window,         \* how many lines the 4000 characters of tainted_binding are
    declared        \* how many labels the metric declares

ASSUME MetricLabelsAssumption == {MaxLines, Window, declared} \subseteq Nat

VARIABLES
    file,           \* the lines of the file
    consts,         \* the identifiers that a `const` of any file has
    bad_name,       \* a label name of the declaration matches BAD_LABEL_NAME
    allowlist,      \* the expressions of metric_labels_allowlist.txt
    exit_code       \* of the linter, "none" after an edit

lintVars == <<file, consts, bad_name, allowlist, exit_code>>

\* The label values: a string, an `if c: "a" else: "b"` of strings, an `if` of
\* three branches of which the last two are strings, an identifier that is never
\* bound here, the identifier that the file binds, an enum conversion, and an
\* expression that names a peer.
Exprs == {"literal", "if", "elif", "CONST", "ident", "enum", "peer"}

Identifiers == {"CONST", "ident"}

\* The lines: a binding of the identifier to free-form text or not, a call with
\* its label values, in a literal list or not, and any other line; calls and
\* other lines may carry the waiver comment.
Bindings == [kind : {"let"}, text : BOOLEAN]

Calls == [kind : {"call"}, labels : Seq(Exprs), listed : BOOLEAN, waiver : BOOLEAN]

Others == [kind : {"other"}, waiver : BOOLEAN]

CallLines == {i \in 1 .. MaxLines : file[i].kind = "call"}
-----------------------------------------------------------------------------
\* LITERAL_RE; what comes before the last `else` need not be a literal.
LiteralText(expr) == expr \in {"literal", "if", "elif"}

\* TAINT_RE
Taint(expr) == expr = "peer"

\* Whether the identifier was last bound, in the window before line `pos`, to text.
tainted_binding(pos) ==
    LET window == {i \in 1 .. pos - 1 : i + Window >= pos /\ file[i].kind = "let"}
    IN  window # {} /\ file[CHOOSE i \in window : \A j \in window : j <= i].text

\* The comment is in the call, on its line or on the line above.
Waived(i) == file[i].waiver \/ (i > 1 /\ file[i - 1].kind # "let" /\ file[i - 1].waiver)

Finding(kind, line, key) == [kind |-> kind, line |-> line, key |-> key]

\* The findings of the call on line `i`; label_list finds no list in some.
analyseCall(i) ==
    LET labels == file[i].labels
        Bad(expr) == Taint(expr) \/ (expr = "ident" /\ tainted_binding(i))
    IN  IF Waived(i) \/ ~file[i].listed THEN {}
        ELSE (IF Len(labels) # declared THEN {Finding("arity", i, "none")} ELSE {})
             \cup {Finding(IF Bad(expr) THEN "tainted" ELSE "unbounded", i, expr) :
                     expr \in {e \in ToSet(labels) : ~LiteralText(e) /\ e \notin consts}}

analyse == UNION {analyseCall(i) : i \in CallLines}

Keys == {f.key : f \in {g \in analyse : g.kind = "unbounded"}}

\* Faulty: accepts any finding whose expression is allowlisted.
AcceptedAny(f, allowed) == f.key \in allowed

\* An allowlisted finding is accepted if it is not tainted.
Accepted(f, allowed) == f.kind = "unbounded" /\ f.key \in allowed

Stale(allowed) == allowed \ Keys

\* A run of the linter.
main(update) ==
    /\ allowlist' = IF update THEN Keys ELSE allowlist
    /\ exit_code' = IF /\ \A f \in analyse : Accepted(f, allowlist')
                       /\ Stale(allowlist') = {} /\ ~bad_name
                    THEN "0" ELSE "1"
    /\ UNCHANGED <<file, consts, bad_name>>
-----------------------------------------------------------------------------
LintInit ==
    /\ file = [i \in 1 .. MaxLines |-> [kind |-> "other", waiver |-> FALSE]]
    /\ consts = {"CONST"}
    /\ bad_name = FALSE /\ allowlist = {} /\ exit_code = "none"

\* A line is written, another file gets or loses a `const` of the identifier's
\* name, the declaration gets another label name, or an entry of the allowlist is
\* added or removed.
EditLine ==
    /\ \E i \in 1 .. MaxLines, line \in Lines : file' = [file EXCEPT ![i] = line]
    /\ exit_code' = "none" /\ UNCHANGED <<consts, bad_name, allowlist>>

EditConsts ==
    /\ consts' \in {{"CONST"}, Identifiers}
    /\ exit_code' = "none" /\ UNCHANGED <<file, bad_name, allowlist>>

EditDeclaration ==
    /\ bad_name' = ~bad_name
    /\ exit_code' = "none" /\ UNCHANGED <<file, consts, allowlist>>

EditAllowlist ==
    /\ \E e \in {"enum", "ident", "peer"} :
         allowlist' \in {allowlist \cup {e}, allowlist \ {e}}
    /\ exit_code' = "none" /\ UNCHANGED <<file, consts, bad_name>>

LintNext ==
    \/ \E update \in BOOLEAN : main(update)
    \/ EditLine \/ EditConsts \/ EditDeclaration \/ EditAllowlist
-----------------------------------------------------------------------------
\* The type of the state.
LintTypeOK ==
    /\ file \in [1 .. MaxLines -> Lines \cup Others]
    /\ consts \subseteq Identifiers
    /\ allowlist \subseteq Exprs
    /\ exit_code \in {"none", "0", "1"} /\ bad_name \in BOOLEAN

\* The last binding before line `i`, wherever it is.
BoundTo(i) == {j \in 1 .. i - 1 : /\ file[j].kind = "let"
                                  /\ \A k \in j + 1 .. i - 1 : file[k].kind # "let"}

\* What the docstring promises of a value on line `i`: it is "a string literal, an
\* `if c: "a" else: "b"` of literals, or a `const` string", or it is allowlisted
\* and carries no free-form text.
Kept(e, i) ==
    \/ e \in {"literal", "if", "CONST"}
    \/ /\ e \in allowlist /\ e # "peer"
       /\ e = "ident" => \A j \in BoundTo(i) : ~file[j].text

\* The values that the linter cannot read: a branch before the last `else`, an
\* identifier with the name of some constant, and one bound before the window.
Unread(e, i) ==
    \/ e = "elif"
    \/ e = "ident" /\ (e \in consts \/ \E j \in BoundTo(i) : i - j > Window)

\* A call keeps the promise if it has the waiver, or one such value per label.
Bounded(i) ==
    Waived(i) \/ (Len(file[i].labels) = declared
                  /\ \A e \in ToSet(file[i].labels) : Kept(e, i))

\* Whatever the history of edits and updates, a file that the linter passes keeps
\* the promise of its docstring in every call and value that it can read: free-form
\* text is "never allowlistable", and no stale entry and no suspicious label name
\* pass. A file that keeps the promise, and needs its allowlist, does not fail.
PassedMeansBounded ==
    LET listed == {i \in CallLines : file[i].listed}
        values(i) == ToSet(file[i].labels)
        needed == UNION {values(i) : i \in {c \in listed : ~Waived(c)}}
    IN  /\ exit_code = "0" =>
             /\ \A i \in listed : ~Waived(i) =>
                  /\ Len(file[i].labels) = declared
                  /\ \A e \in values(i) : Kept(e, i) \/ Unread(e, i)
             /\ allowlist \subseteq needed /\ ~bad_name
        /\ exit_code = "1" =>
             \/ \E i \in listed : ~Bounded(i)
             \/ bad_name \/ ~(allowlist \subseteq needed \ consts)
=============================================================================
