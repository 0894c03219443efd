---------------------------- MODULE PhoneNumber -----------------------------
(***************************************************************************)
(* shared/phone: the number a message is sent to, derived from what was    *)
(* typed in the mobile field.                                              *)
(*                                                                         *)
(* A typed text is the sequence of its parts (the separators split it), a  *)
(* part the digits in it and whether it begins with a plus; the digits are *)
(* numbers, every other character is left out.  The lengths are constants: *)
(* 9 digits for a national mobile number, 8 to 15 for a foreign one.       *)
(***************************************************************************)
EXTENDS Naturals, Sequences, SequencesExt

CONSTANTS
    MobileLength,            \* digits of a national mobile number
    MinLandline,             \* digits a landline has at least
    MinForeign, MaxDigits    \* digits a foreign number may have

\* What the instances assume of these.
LengthsGiven ==
    /\ {MobileLength, MinLandline, MinForeign, MaxDigits} \subseteq Nat
    /\ MinForeign <= MaxDigits

NoNumber == <<>>

Result(e164, status, reason) == [e164 |-> e164, status |-> status, reason |-> reason]

Without(digits, n) == SubSeq(digits, n + 1, Len(digits))

DropZero(digits) == IF IsPrefix(<<0>>, digits) THEN Without(digits, 1) ELSE digits

Candidates(raw) == SelectSeq(raw, LAMBDA part : part.digits # <<>>)

\* stripInternationalPrefix: what is left, and the country it was marked with
Stripped(part, code) ==
    LET doubled == IsPrefix(<<0, 0>>, part.digits)
        value   == IF doubled THEN Without(part.digits, 2) ELSE part.digits
    IN  IF IsPrefix(code, value)
        THEN [rest |-> DropZero(Without(value, Len(code))), country |-> "home"]
        ELSE [rest |-> value,
              country |-> IF (part.plus \/ doubled) /\ value # <<>> THEN "foreign" ELSE "none"]

IsMobileNational(national) == Len(national) = MobileLength /\ national[1] = 5

OfNumber(part, code) ==
    LET found    == Stripped(part, code)
        national == DropZero(found.rest)
        starts5  == national # <<>> /\ national[1] = 5
    IN  IF found.country = "foreign"
        THEN IF Len(found.rest) \in MinForeign .. MaxDigits
             THEN Result(found.rest, "valid", "foreign")
             ELSE Result(NoNumber, "invalid", "too_short")
        ELSE IF national # <<>> /\ IsMobileNational(national)
        THEN Result(code \o national, "valid", "")
        ELSE Result(NoNumber, "invalid",
                    IF Len(national) >= MinLandline /\ ~starts5 THEN "landline" ELSE "too_short")

\* the first number counts, and that there are more is noted
NormalizeMobile(raw, code) ==
    LET parts == Candidates(raw)
    IN  IF raw = <<>> THEN Result(NoNumber, "missing", "")
        ELSE IF parts = <<>> THEN Result(NoNumber, "missing", "no_digits")
        ELSE LET one == OfNumber(parts[1], code)
             IN  IF Len(parts) > 1 /\ one.status = "valid"
                 THEN [one EXCEPT !.reason = "multiple"]
                 ELSE one

=============================================================================
