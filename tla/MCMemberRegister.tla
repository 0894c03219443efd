-------------------------- MODULE MCMemberRegister --------------------------
(***************************************************************************)
(* A small instance of MemberRegister: numbers of two to three digits, a   *)
(* mobile with the leading zero and a landline with two numbers in its     *)
(* field.                                                                  *)
(***************************************************************************)
EXTENDS MemberRegister

Digits(digits) == [digits |-> digits, plus |-> FALSE]
MCTexts ==
    {<<>>, <<Digits(<<0, 5, 1>>)>>, <<Digits(<<0, 5, 2>>)>>,
     <<Digits(<<0, 2, 1>>), Digits(<<5, 2>>)>>}
MCNames == {[first |-> <<"dana">>, last |-> <<"levi">>]}
MCCodes == {<<9>>}
=============================================================================
