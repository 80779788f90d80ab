--------------------------- MODULE MCDeliveryOutbox ---------------------------
(* Small instances of DeliveryOutbox. *)
EXTENDS DeliveryOutbox

\* The two oldest rows are SMS and fill a batch, the others are e-mails.
SmsFirst == [r \in Rows |-> IF r <= 2 THEN "sms" ELSE "email"]
===============================================================================
