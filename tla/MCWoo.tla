--------------------------------- MODULE MCWoo ---------------------------------
(***************************************************************************)
(* TLC instances of WooGateway.  The merchants z1 and z2 have the same     *)
(* business name.                                                          *)
(***************************************************************************)
EXTENDS WooGateway, TLC

MCSlugify(n) == CASE n = "Acme"      -> "acme"
                  [] n = "Acme - z1" -> "acme-z1"
                  [] n = "Acme - z2" -> "acme-z2"
MCDisplayName(z) == "Acme"
MCLongName(z) == "Acme - " \o z

Pay(seller, hash, method) ==
    [seller |-> seller, order |-> "1001", hash |-> hash, method |-> method]

From(name, seller, requests) == [name |-> name, seller |-> seller, requests |-> requests]

\* A linked store: a card order clicked twice, and sent again with another body; a
\* pix clicked twice.  A store of the double's: a card clicked twice.  An unrelated
\* store with the seller's name: a first payment.  Nothing: the first payments of two
\* sellers, both of their order 1001.
MCWorkloads ==
    {From("Acme", "z1", "r1" :> Pay("z1", "h1", "credit_card")
                        @@ "r2" :> Pay("z1", hash, "credit_card")) : hash \in {"h1", "h2"}}
    \cup
    {From("Acme", "z1", "r1" :> Pay("z1", "h1", "pix") @@ "r2" :> Pay("z1", "h1", "pix")),
     From("Acme", "fake", "r1" :> Pay("fake", "h1", "credit_card")
                          @@ "r2" :> Pay("fake", "h1", "credit_card")),
     From("Acme", NoSeller, "r1" :> Pay("z1", "h1", "boleto")),
     From(None, NoSeller, "r1" :> Pay("z1", "h1", "pix")
                          @@ "r2" :> Pay("z2", "h1", "credit_card"))}

MCFirst ==
    {From(None, NoSeller, "r1" :> Pay("z1", "h1", "credit_card")
                          @@ "r2" :> Pay("z1", "h1", "credit_card"))}

==============================================================================
