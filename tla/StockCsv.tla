------------------------------ MODULE StockCsv ------------------------------
(***************************************************************************)
(* Reading a stock file (inventory/domain/csv.ts) and planning what it     *)
(* would do (planStockImport): how a line falls into fields, which rows    *)
(* are rows, and which of them could be applied.  Nothing is written here; *)
(* Inventory has the transaction that applies a file.                      *)
(***************************************************************************)
EXTENDS Integers, SequencesExt

CONSTANTS
    Lines,       \* lines to split
    Files,       \* files of rows, as split, below their header
    Default,     \* the mode of a row that names none
    MaxRows,     \* MAX_IMPORT_ROWS
    SafeLimit,   \* Number.MAX_SAFE_INTEGER
    Stocked      \* websiteStock of each SKU that is set up for the shop

Delimiters == {",", ";"}
Blank == " "
Quote == "\""
Chars == Delimiters \cup {Blank, Quote, "x"}

Modes == {"set", "delta"}
\* A row has the columns sku, mode, quantity and whole: that the quantity is
\* written as a whole number.
NoSku == "none"

ASSUME StockCsvConstants ==
    /\ Lines \subseteq Seq(Chars)
    /\ \A f \in Files : Len(f) \in Nat /\ DOMAIN f = 1..Len(f)
    /\ Default \in Modes
    /\ {MaxRows, SafeLimit} \subseteq Nat

VARIABLES
    line, delimiter, \* the line being split, on one delimiter
    pos,             \* characters of it that were read
    field,           \* what the field holds so far
    quoted,          \* inQuotes
    closed,          \* quotedFieldClosed
    out,             \* the fields before it
    verdict,         \* "reading", then "split" or "refused"
    file, lineNo,        \* the rows of a file and how many were read
    rows, errors,    \* lines taken as rows; lines reported
    named,           \* seen: SKUs that were named
    planned          \* what the rows would do, once all are read

csvVars == <<line, delimiter, pos, field, quoted, closed, out, verdict,
             file, lineNo, rows, errors, named, planned>>
lineRest == <<line, delimiter>>
fileVars == <<file, lineNo, rows, errors, named, planned>>
lineVars == <<line, delimiter, pos, field, quoted, closed, out, verdict>>

-----------------------------------------------------------------------------
(* splitLine *)

Char == line[pos + 1]
Splitting == verdict = "reading" /\ pos < Len(line)
Doubled == pos + 2 <= Len(line) /\ line[pos + 2] = Quote

\* trim, of both ends
Trim(s) ==
    LET text == {i \in DOMAIN s : s[i] # Blank}
        first == CHOOSE i \in text : \A j \in text : i <= j
        last == CHOOSE i \in text : \A j \in text : j <= i
    IN IF text = {} THEN <<>> ELSE SubSeq(s, first, last)

Takes(n, f, q, c) ==
    /\ pos' = pos + n /\ field' = f /\ quoted' = q /\ closed' = c
    /\ UNCHANGED <<lineRest, out, verdict, fileVars>>

Refuses ==
    /\ verdict' = "refused"
    /\ UNCHANGED <<lineRest, pos, field, quoted, closed, out, fileVars>>

\* Inside quotes a doubled one stands for itself and a single one closes.
ReadQuoted ==
    /\ Splitting /\ quoted
    /\ \/ Char # Quote /\ Takes(1, Append(field, Char), TRUE, closed)
       \/ Char = Quote /\ Doubled /\ Takes(2, Append(field, Quote), TRUE, closed)
       \/ Char = Quote /\ ~Doubled /\ Takes(1, field, FALSE, TRUE)

ReadDelimiter ==
    /\ Splitting /\ ~quoted /\ Char = delimiter
    /\ out' = Append(out, Trim(field))
    /\ field' = <<>> /\ closed' = FALSE /\ pos' = pos + 1
    /\ UNCHANGED <<lineRest, quoted, verdict, fileVars>>

\* A quote may only start a field.
OpenQuote ==
    /\ Splitting /\ ~quoted /\ Char = Quote
    /\ IF closed \/ field # <<>> THEN Refuses ELSE Takes(1, field, TRUE, closed)

\* Bug: text after a closing quote is taken into the field.
ReadTextAnywhere ==
    /\ Splitting /\ ~quoted /\ Char \notin {Quote, delimiter}
    /\ Takes(1, Append(field, Char), FALSE, closed)

\* After a closing quote only blanks may follow.
ReadText ==
    /\ Splitting /\ ~quoted /\ Char \notin {Quote, delimiter}
    /\ IF closed /\ Char # Blank THEN Refuses ELSE Takes(1, Append(field, Char), FALSE, closed)

EndLine ==
    /\ verdict = "reading" /\ pos = Len(line)
    /\ IF quoted
       THEN Refuses
       ELSE /\ out' = Append(out, Trim(field)) /\ verdict' = "split"
            /\ UNCHANGED <<lineRest, pos, field, quoted, closed, fileVars>>

-----------------------------------------------------------------------------
(* parseStockCsv, below the header *)

Unplanned == [ok |-> FALSE, done |-> FALSE, changes |-> {}, unchanged |-> {}]
Reading == ~planned.done

NextRow == file[lineNo + 1]
SkuOf(row) == IF row.kind = "cells" THEN row.sku ELSE NoSku
Taken(S) == {e.line : e \in S}

\* Everything that may be wrong with a row, in the order it is looked for.
\* Number() of a huge text is still a number, only not a safe one.
RowMode(row) == IF row.mode = "" THEN Default ELSE row.mode
Faulty(row) ==
    \/ RowMode(row) \notin Modes
    \/ ~row.whole
    \/ RowMode(row) = "set" /\ row.quantity < 0
    \/ row.quantity > SafeLimit \/ row.quantity < -SafeLimit

Reported(n) == errors' = errors \cup {n}
ReadsTo(n) == lineNo' = n /\ UNCHANGED <<file, planned, lineVars>>

ReadBlank ==
    /\ Reading /\ lineNo < Len(file) /\ NextRow.kind = "blank"
    /\ ReadsTo(lineNo + 1)
    /\ UNCHANGED <<rows, errors, named>>

Counted == lineNo < Len(file) /\ NextRow.kind # "blank"
Full == Cardinality(rows) + Cardinality(errors) >= MaxRows

\* The first line too many is reported, and no other is read.
StopAtLimit ==
    /\ Reading /\ Counted /\ Full
    /\ Reported(lineNo + 1)
    /\ ReadsTo(Len(file))
    /\ UNCHANGED <<rows, named>>

\* Broken quotes, or no SKU
ReadBroken ==
    /\ Reading /\ Counted /\ ~Full
    /\ SkuOf(NextRow) = NoSku
    /\ Reported(lineNo + 1)
    /\ ReadsTo(lineNo + 1)
    /\ UNCHANGED <<rows, named>>

Readable == Reading /\ Counted /\ ~Full /\ SkuOf(NextRow) # NoSku

\* Bug: a SKU is remembered only when its row is taken.
ReadRowForgetful ==
    /\ Readable
    /\ IF NextRow.sku \in named \/ Faulty(NextRow)
       THEN Reported(lineNo + 1) /\ UNCHANGED <<rows, named>>
       ELSE /\ rows' = rows \cup {[line |-> lineNo + 1, sku |-> NextRow.sku]}
            /\ named' = named \cup {NextRow.sku}
            /\ UNCHANGED errors
    /\ ReadsTo(lineNo + 1)

\* A SKU that was named before, whether its row was taken or not, is an error.
ReadRow ==
    /\ Readable
    /\ IF NextRow.sku \in named \/ Faulty(NextRow)
       THEN Reported(lineNo + 1) /\ UNCHANGED rows
       ELSE /\ rows' = rows \cup {[line |-> lineNo + 1, sku |-> NextRow.sku]}
            /\ UNCHANGED errors
    /\ named' = named \cup {NextRow.sku}
    /\ ReadsTo(lineNo + 1)

-----------------------------------------------------------------------------
(* planStockImport *)

Resolvable(row) == row.sku \in DOMAIN Stocked
NewStock(row) ==
    IF RowMode(file[row.line]) = "set" THEN file[row.line].quantity
    ELSE Stocked[row.sku] + file[row.line].quantity

\* A file without rows is refused as a whole.
\* What the rows would do: a SKU the shop does not carry, or a balance below
\* nothing, is an error of its line; the file is fit only without errors.
PlanRows ==
    /\ Reading /\ lineNo = Len(file)
    /\ rows # {} \/ errors # {}
    /\ LET fit == {row \in rows : Resolvable(row) /\ NewStock(row) >= 0}
           all == errors \cup (Taken(rows) \ Taken(fit))
       IN /\ errors' = all
          /\ planned' = [ok |-> all = {}, done |-> TRUE,
                         changes |-> {row \in fit : NewStock(row) # Stocked[row.sku]},
                         unchanged |-> {row \in fit : NewStock(row) = Stocked[row.sku]}]
    /\ UNCHANGED <<file, lineNo, rows, named, lineVars>>

-----------------------------------------------------------------------------
CsvInit ==
    /\ \/ line \in Lines /\ file = <<>>
       \/ line = <<>> /\ file \in Files
    /\ delimiter \in Delimiters
    /\ pos = 0 /\ field = <<>> /\ quoted = FALSE /\ closed = FALSE
    /\ out = <<>> /\ verdict = "reading"
    /\ lineNo = 0
    /\ rows = {} /\ errors = {} /\ named = {} /\ planned = Unplanned

CsvNext ==
    \/ ReadQuoted \/ ReadDelimiter \/ OpenQuote \/ ReadText \/ EndLine
    \/ ReadBlank \/ StopAtLimit \/ ReadBroken \/ ReadRow \/ PlanRows

CsvSpec == CsvInit /\ [][CsvNext]_csvVars

-----------------------------------------------------------------------------
(* Properties *)

\* The other way round: where a line may be cut into fields, and how a field may
\* be written.  A field lies between a place it was cut, or 0, and the next one.
Cuts == SUBSET {i \in DOMAIN line : line[i] = delimiter}
FieldStarts(cut) == cut \cup {0}
FieldEnd(cut, a) ==
    LET ends == cut \cup {Len(line) + 1}
    IN CHOOSE e \in ends : e > a /\ \A f \in ends : f > a => e <= f
Nth(cut, a) == Cardinality({i \in cut : i <= a}) + 1

\* A field between a and e is written plainly, without quotes and delimiters ...
IsPlain(a, e) == \A i \in (a + 1)..(e - 1) : line[i] \notin {Quote, delimiter}

\* ... or in quotes: its characters one after the other, a quote as two of them,
\* then the closing quote, and after it blanks.  A walk is where they stand.
Follows(p, q) == IF line[p] = Quote THEN q = p + 2 /\ line[p + 1] = Quote ELSE q = p + 1
IsWalk(at, n, a) ==
    /\ line[a + 1] = Quote /\ at[1] = a + 2
    /\ \A k \in 1..(n - 1) : Follows(at[k], at[k + 1])
Closes(c, e) == line[c] = Quote /\ \A i \in (c + 1)..(e - 1) : line[i] = Blank
Walks(a, e) ==
    {at \in UNION {[1..n -> (a + 2)..(e - 1)] : n \in 1..(e - a - 2)} :
        IsWalk(at, Len(at), a) /\ Closes(at[Len(at)], e)}
Text(at) == [k \in 1..(Len(at) - 1) |-> line[at[k]]]

\* What a field may be read as, and the cuts that leave only fields.
Readings(a, e) ==
    (IF IsPlain(a, e) THEN {Trim(SubSeq(line, a + 1, e - 1))} ELSE {})
        \cup {Trim(Text(at)) : at \in Walks(a, e)}
Legal == {cut \in Cuts : \A a \in FieldStarts(cut) : Readings(a, FieldEnd(cut, a)) # {}}

\* A line is refused exactly when it cannot be read, and is otherwise split into
\* the fields it was written from, in only one way: no quantity comes out of broken
\* quotes (csv.ts:69-74).
LineIsReadAsWritten ==
    verdict # "reading" =>
        /\ verdict = "refused" <=> Legal = {}
        /\ verdict = "split" =>
             \E cut \in Legal :
                /\ Len(out) = Cardinality(cut) + 1
                /\ \A a \in FieldStarts(cut) : out[Nth(cut, a)] \in Readings(a, FieldEnd(cut, a))
        /\ \A cut, other \in Legal : cut = other

Filled == {n \in DOMAIN file : file[n].kind # "blank"}

\* Every line of a file is a row or is reported, once, up to the first one too
\* many; a SKU gives at most one row, from the line that names it first; and a
\* file that is fit has every line of it among its changes or the unchanged.
FileIsAccountedFor ==
    LET done == Taken(rows) \cup errors
        first(n) == \A m \in Filled : m < n => SkuOf(file[m]) # SkuOf(file[n])
    IN /\ \A row \in rows : first(row.line) /\ file[row.line].sku = row.sku
       /\ Reading =>
            /\ Taken(rows) \cap errors = {}
            /\ \/ done = Filled \cap 1..lineNo
               \/ Cardinality(done) = MaxRows + 1 /\ done \subseteq Filled
       /\ ~Reading =>
            LET fit == planned.changes \cup planned.unchanged IN
            /\ fit \subseteq rows /\ Taken(fit) \cap errors = {}
            /\ done = Taken(fit) \cup errors
            /\ \A row \in fit : NewStock(row) >= 0 /\ RowMode(file[row.line]) \in Modes
            /\ planned.ok => Taken(fit) = Filled

\* A stock file is read as it was written, and every line of it is answered for.
CsvReadAsWritten == LineIsReadAsWritten /\ FileIsAccountedFor
=============================================================================
