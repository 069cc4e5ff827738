------------------------------ MODULE Kitchen ------------------------------
(***************************************************************************)
(* KitchenService: the routing of categories to stations, the dispatch of  *)
(* what an order has not yet sent, and the tickets through the kitchen.    *)
(***************************************************************************)
EXTENDS PosState

\* routeCategory: one row for each category; a second route replaces the first.
RouteCategory(s, c) ==
  /\ route[c] # s
  /\ route' = [route EXCEPT ![c] = s]
  /\ UNCHANGED <<orderVars, ticket, active, tableVars, moneyVars>>

UnrouteCategory(s, c) ==
  /\ route[c] = s
  /\ route' = [route EXCEPT ![c] = Nowhere]
  /\ UNCHANGED <<orderVars, ticket, active, tableVars, moneyVars>>

\* updateStation, as far as its status goes.
UpdateStation(s) ==
  /\ active' = IF s \in active THEN active \ {s} ELSE active \cup {s}
  /\ UNCHANGED <<orderVars, kitchenVars, tableVars, moneyVars>>

Dispatchable(o) == order[o].status = "OPEN"

\* remainingKitchenQuantity
Remaining(l) == IF quantity[l] > Sent(l) THEN quantity[l] - Sent(l) ELSE 0

\* partitionKitchenDispatchItems: the lines with something to send, of a routed
\* category.  A route to an inactive station refuses the whole dispatch.
ToDispatch(o) == {l \in LinesOf(o) : Remaining(l) > 0 /\ route[Category[l]] # Nowhere}

\* dispatch: a ticket for each station with something to do.
Dispatch(o) ==
  LET lines == ToDispatch(o)
      stations == {route[Category[l]] : l \in lines}
      unused == {t \in Tickets : ticket[t].status = "NONE"}
  IN /\ Dispatchable(o)
     /\ lines # {} /\ stations \subseteq active
     /\ \E ticketOf \in [stations -> unused] :
          /\ \A s, z \in stations : ticketOf[s] = ticketOf[z] => s = z
          /\ ticket' = [t \in Tickets |->
               IF \E s \in stations : ticketOf[s] = t
                 THEN LET s == CHOOSE s \in stations : ticketOf[s] = t
                      IN [status |-> "QUEUED", order |-> o, station |-> s,
                          items |-> [l \in Lines |->
                            IF l \in lines /\ route[Category[l]] = s THEN Remaining(l) ELSE 0]]
                 ELSE ticket[t]]
     /\ UNCHANGED <<orderVars, route, active, tableVars, moneyVars>>

\* KITCHEN_TRANSITIONS
TicketTransitions ==
  {<<"QUEUED", "IN_PROGRESS">>, <<"QUEUED", "CANCELLED">>, <<"IN_PROGRESS", "READY">>,
   <<"READY", "SERVED">>}

\* transition: under the lock of the ticket alone.
TransitionTicket(t, next) ==
  /\ <<ticket[t].status, next>> \in TicketTransitions
  /\ ticket' = [ticket EXCEPT ![t].status = next]
  /\ UNCHANGED <<orderVars, route, active, tableVars, moneyVars>>

KitchenNext ==
  \/ \E s \in Stations :
       \/ UpdateStation(s)
       \/ \E c \in Categories : RouteCategory(s, c) \/ UnrouteCategory(s, c)
  \/ \E o \in Orders : Dispatch(o)
  \/ \E t \in Tickets, next \in TicketStatus : TransitionTicket(t, next)
=============================================================================
