-------------------------- MODULE MCBookingPayment --------------------------
(* Small instances of BookingPayment for TLC. *)
EXTENDS BookingPaymentProperties, TLC

CONSTANTS b1, b2, r1

\* Two bookings of one room that share the night of day 1.
MCRoomOf == [b \in Bookings |-> r1]
MCStayDates == [b \in Bookings |-> IF b = b1 THEN Dates ELSE {1}]

\* Two bookings of one night each, which can both wait for the cron.
MCSeparateStays == [b \in Bookings |-> IF b = b1 THEN {0} ELSE {1}]

\* Payments differ only by name, and so do refund keys.
PaymentSymmetry == Permutations(Payments) \union Permutations(RefundKeys)
=============================================================================
