-------------------------- MODULE MCPaymentPanel --------------------------
(* PaymentPanel on small instances: tables of at most four instalments and *)
(* the fees of the schema's defaults.                                      *)
EXTENDS PaymentPanel, TLC

CONSTANTS e1, e2

Line(link, tap) == [LINK |-> link, TAP |-> tap]
Standard == (1 :> Line(420, 446)) @@ (2 :> Line(609, 581)) @@ (3 :> Line(701, 632))
Nitro == (1 :> Line(599, 599)) @@ (2 :> Line(1139, 1139)) @@ (4 :> Line(1309, 1309))

Loja ==
    [f \in Fields |->
        CASE f = "pixKey" -> "mail" [] f = "pixKeyType" -> "email"
          [] f = "activeCardPlan" -> "STANDARD"
          [] f = "cardRates" -> Standard [] f = "nitroCardRates" -> Nitro
          [] f = "maxInstallments" -> 4 [] f = "interestFreeUpTo" -> 2
          [] OTHER -> 10]

Pairs == {<<"mail", "email">>, <<"number", "cpf">>, <<"empty", "email">>, <<"empty", "cpf">>}

\* The key alone, the key with its type, the type alone, a table with a line
\* half filled, and the fields the hook of the schema relates to each other.
Typing ==
    { ("pixKey" :> "number") @@ ("pixKeyType" :> "cpf"),
      "activeCardPlan" :> "NITRO", "nitroCardRates" :> [n \in {} |-> Line(0, 0)],
      "cardRates" :> ((1 :> Line(420, 446)) @@ (2 :> Line(609, Blank))),
      "maxInstallments" :> 2, "interestFreeUpTo" :> 3 }
\* Two of the keys are e-mails: the second is typed without touching the type.
PairsOfTwo == Pairs \cup {<<"other", "email">>}
TypingKeys == {("pixKey" :> "number") @@ ("pixKeyType" :> "cpf"), "pixKey" :> "other"}
TypingAnything == Typing \cup TypingKeys
Amounts == {19, 30001}
Symmetric == Permutations(Editors)
=============================================================================
