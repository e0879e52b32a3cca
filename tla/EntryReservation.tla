-------------------------- MODULE EntryReservation --------------------------
(***************************************************************************)
(* nexor_x/operations/entry_reservation.py: AtomicEntryReservationGuard.   *)
(*                                                                         *)
(* At most one reservation is held; it expires ReservationTTL after it was *)
(* made, whether or not its holder has finished.  Every operation first    *)
(* drops an expired reservation.  The state is saved on every change and   *)
(* outlives the process.  A reservation id (uuid4) is a number that is     *)
(* never reused.                                                           *)
(***************************************************************************)
EXTENDS Clock

CONSTANT ReservationTTL

ASSUME ReservationPolicyAssumption == ReservationTTL \in Nat \ {0}

VARIABLE reservation       \* AtomicEntryReservationGuard._state

Reservations == [id : Stamps, expiresAt : Stamps]

NoReservation == [id |-> None, expiresAt |-> None]

----------------------------------------------------------------------------
IsHeld(r) == r.id # None

\* Faulty variant: a reservation never expires.
NeverExpires(r, t) == r

\* _expire_if_needed
Unexpired(r, t) ==
    IF IsStamp(r.expiresAt) /\ t >= r.expiresAt THEN NoReservation ELSE r

\* Faulty variant: reserve() overwrites.
AlwaysReserves(r, t) == TRUE

\* reserve() succeeds on what _expire_if_needed leaves.
CanReserve(r, t) == ~IsHeld(Unexpired(r, t))

Reserve(id, t) == [id |-> id, expiresAt |-> t + ReservationTTL]

\* Faulty variant: the caller's id is not compared.
SettleAny(r, id, t) == NoReservation

\* confirm(id) and release(id) change the state alike: the reservation is
\* cleared only if it is still the caller's, otherwise RESERVATION_NOT_FOUND.
Settle(r, id, t) ==
    IF Unexpired(r, t).id = id THEN NoReservation ELSE Unexpired(r, t)

----------------------------------------------------------------------------
\* The id and the expiry come and go together, and a reservation never
\* outlives its TTL by the clock: it expires at most ReservationTTL from now.
ReservationIsCoherent ==
    IF IsHeld(reservation)
    THEN reservation.expiresAt \in 0..(now + ReservationTTL)
    ELSE reservation = NoReservation

ReservationTypeOK == ClockTypeOK /\ reservation \in Reservations
=============================================================================
