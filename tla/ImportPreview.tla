---------------------------- MODULE ImportPreview ----------------------------
(***************************************************************************)
(* What ImportService.preview_csv (modules/imports/service.py) makes of an *)
(* uploaded file: which lines are valid, what sale each of them stands for *)
(* and under which key.  Preview reads nothing but the file, so all of this*)
(* are functions of its lines; SalesIntake commits what they yield.        *)
(*                                                                         *)
(* A cell is Blank if it is empty.  paper is what a line says of its date, *)
(* currency and document number, Blank if one that is required is missing  *)
(* or wrong.  A number as it is written is a sequence of groups of digits  *)
(* with a comma or a point between each two.  The amounts a line may give  *)
(* beside the first one (net, paid, ...) are read in the same way.         *)
(***************************************************************************)
EXTENDS Integers, Sequences, FiniteSets, SequencesExt

CONSTANT Blank

\* "1,234.50" is parts 1, 234, 50 with a comma and a point.
AmountText ==
    [negative : BOOLEAN, parts : Seq([digits : Nat, value : Nat]), marks : Seq({"comma", "point"})]

DocumentKinds == {"sale", "return", "refund", "adjustment", "correction"}

DocumentStatuses == {"draft", "posted", "cancelled", "deleted", "unknown"}

----------------------------------------------------------------------------
(* _parse_amount_minor.                                                    *)

Join(parts) ==
    FoldLeft(LAMBDA a, b : [digits |-> a.digits + b.digits,
                            value |-> a.value * 10^b.digits + b.value],
             [digits |-> 0, value |-> 0], parts)

Has(t, mark) == \E i \in DOMAIN t.marks : t.marks[i] = mark

\* A mutant: groups of up to three digits.
LooksLikeGroups(t) ==
    /\ t.parts[1].digits \in 1..3
    /\ \A i \in 2..Len(t.parts) : t.parts[i].digits \in 1..3

\* _looks_like_thousands_with_commas
LooksLikeThousands(t) ==
    /\ t.parts[1].digits \in 1..3
    /\ \A i \in 2..Len(t.parts) : t.parts[i].digits = 3

\* Commas are dropped beside a point or if they part thousands; else they are
\* points.
DropsCommas(t) == Has(t, "point") \/ LooksLikeThousands(t)

Points(t) == {i \in DOMAIN t.marks : t.marks[i] = "point" \/ ~DropsCommas(t)}

\* Decimal accepts it.
Readable(t) == Cardinality(Points(t)) <= 1 /\ Join(t.parts).digits > 0

FractionDigits(t) ==
    IF Points(t) = {} THEN 0
    ELSE LET point == CHOOSE i \in Points(t) : TRUE
         IN  Join(SubSeq(t.parts, point + 1, Len(t.parts))).digits

Scaled(t, scale) == Join(t.parts).value * 10^scale

MinorUnits(t, scale) == Scaled(t, scale) \div 10^FractionDigits(t)

AmountAccepted(t, scale) ==
    /\ Readable(t)
    /\ t.negative => Join(t.parts).value = 0
    /\ Scaled(t, scale) % 10^FractionDigits(t) = 0

----------------------------------------------------------------------------
(* The lines of a file.                                                    *)

IsFile(file) == Len(file) \in Nat /\ DOMAIN file = 1..Len(file)

IsReturn(line) == line.kind \in {"return", "refund"}

\* amount_sign, given or by the kind of document.
Sign(line) ==
    IF line.sign # Blank THEN line.sign ELSE IF IsReturn(line) THEN -1 ELSE 1

SignAccepted(line) ==
    /\ Sign(line) \in {1, -1}
    /\ IsReturn(line) => Sign(line) = -1
    /\ line.kind = "sale" => Sign(line) = 1

\* _validate_row adds no error.
Sound(line) ==
    /\ line.customer # Blank
    /\ line.paper # Blank
    /\ line.scale >= 0
    /\ line.amount # Blank
    /\ AmountAccepted(line.amount, line.scale)
    /\ line.kind \in DocumentKinds
    /\ line.status \in DocumentStatuses
    /\ SignAccepted(line)

\* _build_idempotency_key: sale_external_id, or else what the line says,
\* without the kind of document and the sign.
IdempotencyKey(line) ==
    IF line.id # Blank THEN line.id
    ELSE <<line.customer, line.paper, MinorUnits(line.amount, line.scale)>>

\* _mark_duplicate_idempotency_keys: every one of them is invalid.
Duplicate(file, i) ==
    \E j \in DOMAIN file \ {i} :
      Sound(file[j]) /\ IdempotencyKey(file[j]) = IdempotencyKey(file[i])

ValidLines(file) == {i \in DOMAIN file : Sound(file[i]) /\ ~Duplicate(file, i)}

\* normalized_row_json.  A total leaves out cancelled and deleted documents
\* alike.
Normalized(line) ==
    [key |-> IdempotencyKey(line), customer |-> line.customer,
     amount |-> Sign(line) * MinorUnits(line.amount, line.scale),
     cancelled |-> line.status \in {"cancelled", "deleted"}]

\* A line's place among the valid ones.
PlaceOf(file, i) == Cardinality({j \in ValidLines(file) : j <= i})

\* The rows of the batch that commit_batch will read, by row_number.
PreviewedRows(file) ==
    [n \in 1..Cardinality(ValidLines(file)) |->
       Normalized(file[CHOOSE i \in ValidLines(file) : PlaceOf(file, i) = n])]

----------------------------------------------------------------------------
(* The reference: numbers as people write them.                            *)

Styles == {"point", "comma", "thousands"}

Digits(n) == IF n < 10 THEN 1 ELSE IF n < 100 THEN 2 ELSE IF n < 1000 THEN 3
             ELSE IF n < 10000 THEN 4 ELSE IF n < 100000 THEN 5
             ELSE IF n < 1000000 THEN 6 ELSE IF n < 10000000 THEN 7
             ELSE IF n < 100000000 THEN 8 ELSE 9

Part(n) == [digits |-> Digits(n), value |-> n]

Exactly(digits, n) == [digits |-> digits, value |-> n]

\* A number below 10^9 in groups of three, and in one group.
Grouped(n) ==
    IF n < 1000 THEN <<Part(n)>>
    ELSE IF n < 1000000 THEN <<Part(n \div 1000), Exactly(3, n % 1000)>>
    ELSE <<Part(n \div 1000000), Exactly(3, (n \div 1000) % 1000), Exactly(3, n % 1000)>>

\* n minor units of a currency with the given scale.
Written(n, scale, style) ==
    LET units == n \div 10^scale
        whole == IF style = "thousands" THEN Grouped(units) ELSE <<Part(units)>>
        commas == [i \in 1..(Len(whole) - 1) |-> "comma"]
    IN  IF scale = 0 THEN [negative |-> FALSE, parts |-> whole, marks |-> commas]
        ELSE [negative |-> FALSE,
              parts |-> Append(whole, Exactly(scale, n % 10^scale)),
              marks |-> Append(commas, IF style = "comma" THEN "comma" ELSE "point")]
=============================================================================
