-------------------------------- MODULE Ledger --------------------------------
(***************************************************************************)
(* What the teaching-hour balances promise: an account of bookings.        *)
(*                                                                         *)
(* A booking takes hours from an account and is whole: its hours and its   *)
(* place on the account change in one step, and no account goes beyond its *)
(* cap.  A booking that moves to another account or another length is      *)
(* refunded and booked anew.  A booking that is dropped is not refunded.   *)
(***************************************************************************)
EXTENDS Integers, FiniteSets

CONSTANTS
    Accounts,
    Bookable,       \* what hours can be booked for
    NoBooking,
    Amounts,        \* the hours a booking can take
    Cap             \* account -> the hours it may be booked for

VARIABLES
    bookings,       \* Bookable -> an account and hours, or NoBooking
    balance         \* account -> the hours it is booked for

ledgerVars == <<bookings, balance>>

Booking(account, hours) == [account |-> account, hours |-> hours]

LedgerInit ==
    /\ bookings = [b \in Bookable |-> NoBooking]
    /\ balance = [a \in Accounts |-> 0]

Charged(amounts, account, hours) == [amounts EXCEPT ![account] = @ + hours]
Released(amounts, account, hours) ==
    [amounts EXCEPT ![account] = IF @ - hours < 0 THEN 0 ELSE @ - hours]

Book(b, account, hours) ==
    /\ bookings[b] = NoBooking
    /\ balance[account] + hours <= Cap[account]
    /\ bookings' = [bookings EXCEPT ![b] = Booking(account, hours)]
    /\ balance' = Charged(balance, account, hours)

Rebook(b, account, hours) ==
    LET old == bookings[b]
        released == Released(balance, old.account, old.hours)
    IN  /\ old # NoBooking
        /\ released[account] + hours <= Cap[account]
        /\ bookings' = [bookings EXCEPT ![b] = Booking(account, hours)]
        /\ balance' = Charged(released, account, hours)

Drop(b) ==
    /\ bookings' = [bookings EXCEPT ![b] = NoBooking]
    /\ UNCHANGED balance

LedgerNext ==
    \E b \in Bookable :
        \/ \E account \in Accounts, hours \in Amounts :
              Book(b, account, hours) \/ Rebook(b, account, hours)
        \/ Drop(b)

LedgerSpec == LedgerInit /\ [][LedgerNext]_ledgerVars
-----------------------------------------------------------------------------
\* One element for each hour that is booked on the account.
HoursBooked(account) ==
    UNION {{b} \X (1 .. bookings[b].hours) :
              b \in {c \in Bookable : bookings[c] # NoBooking /\ bookings[c].account = account}}

\* The balance of an account covers what is booked on it and keeps to its cap.
Balanced ==
    \A a \in Accounts : Cardinality(HoursBooked(a)) <= balance[a] /\ balance[a] <= Cap[a]
=============================================================================
