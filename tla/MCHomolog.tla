------------------------------ MODULE MCHomolog ------------------------------
(***************************************************************************)
(* TLC instances of the harness.  Together: two runs of three scenarios at *)
(* once.  Beside: a run beside two of one millisecond.  Alone: a whole     *)
(* run, whose key may be rotated.  Afterwards: a payment is captured or    *)
(* cancelled when the run is over or was cut short.  Twins: two runs of    *)
(* one millisecond.                                                        *)
(***************************************************************************)
EXTENDS Homolog, TLC

Ids == "u1" :> "t1" @@ "u2" :> "t2" @@ "u3" :> "t3"
TwinIds == "u1" :> "t1" @@ "u2" :> "t1" @@ "u3" :> "t2"

Together == [runs |-> {"u1", "u2"}, ids |-> Ids, late |-> {}, keys |-> 1,
             plan |-> <<"troca_pagamento", "estorno_parcial", "chargeback_pedido">>]

Beside == [runs |-> {"u1", "u2", "u3"}, ids |-> TwinIds, late |-> {}, keys |-> 1,
           plan |-> <<"cartao_pf_completo">>]

Alone == [runs |-> {"u1"}, ids |-> Ids, late |-> {}, keys |-> 2, plan |-> AllScenarios]

Afterwards ==
    [runs |-> {"u1"}, ids |-> Ids, late |-> {"capture", "cancel"}, keys |-> 1,
     plan |-> <<"pix_pedido", "estorno_total", "cancelamento_pos_autorizacao",
                "cartao_pf_completo">>]

Twins == [runs |-> {"u1", "u2"}, ids |-> TwinIds, late |-> {}, keys |-> 1,
          plan |-> <<"cartao_pf_completo", "estorno_total">>]

MCSessions == {Together, Beside, Alone, Afterwards, Twins}

==============================================================================
