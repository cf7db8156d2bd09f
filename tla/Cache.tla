------------------------------- MODULE Cache -------------------------------
(***************************************************************************)
(* Cache<T, TTL>: a value that is usable for TTL slots after its last      *)
(* update, unless it was invalidated by hand.  A cached structure is a     *)
(* record with the fields of T and the two fields below.                   *)
(***************************************************************************)
EXTENDS Integers

(* validate_fresh: neither expired, nor from a later slot, nor invalidated. *)
Fresh(cache, current_slot, ttl) ==
    /\ cache.last_updated <= current_slot
    /\ current_slot - cache.last_updated <= ttl
    /\ ~cache.invalidated

(* refresh_to: valid again from current_slot on, the value untouched. *)
RefreshTo(cache, current_slot) ==
    [cache EXCEPT !.last_updated = current_slot, !.invalidated = FALSE]

(* invalidate: stale whatever the slot is. *)
Invalidate(cache) == [cache EXCEPT !.invalidated = TRUE]

(* The time to live of a reserve's state and of its entry in the market. *)
ReserveTTL == 1
=============================================================================
