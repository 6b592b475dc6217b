----------------------------- MODULE MCShutdown -----------------------------
(* TLC instance of Shutdown: a cancel, a fill, and a placement whose client *)
(* goes away; a projection of all events and a subscriber to fills only.    *)
EXTENDS Shutdown, TLC

CONSTANTS cancel, fill, latePlace, readModel, fillsOnly

MCBatch == cancel :> <<"OrderCanceled">> @@ fill :> <<"OrderFilled">> @@
           latePlace :> <<"OrderPlaced", "OrderAccepted">>

MCFilter == readModel :> "" @@ fillsOnly :> "OrderFilled"

MCWiring == <<readModel, fillsOnly>>
=============================================================================
