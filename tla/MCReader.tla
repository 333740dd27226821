------------------------------ MODULE MCReader ------------------------------
(* ManagementReader for TLC: two clients with the same common name, and two *)
(* versions of the columns, one of them without the numeric time.           *)
EXTENDS ManagementReader, TLC

MCCN == ("c1" :> "alice") @@ ("c2" :> "alice")
MCAddress == ("c1" :> "addr1") @@ ("c2" :> "addr2")
MCOrders ==
    LET o == <<"Common Name", "Real Address", "Virtual Address",
               "Connected Since", "Connected Since (time_t)", "Client ID">>
    IN  {Reverse(o), SelectSeq(o, LAMBDA c : c # "Connected Since (time_t)")}
=============================================================================
