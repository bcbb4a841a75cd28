--------------------------------- MODULE Lists ---------------------------------
(***************************************************************************)
(* How an item is taken out of a Python list.  eventbus/tcp.py: the list   *)
(* comprehension with which the server takes a connection out of a topic's *)
(* list, and the client a subscription.  eventbus/someip.py, spi: remove;  *)
(* eventbus/bus.py, where ids are unique, comes to the same.               *)
(***************************************************************************)
EXTENDS Naturals, SequencesExt

\* [x for x in list if x is not item]: every occurrence goes, the rest keeps its order.
Without(list, item) ==
    LET Kept[n \in 0..Len(list)] ==
            IF n = 0 THEN <<>>
            ELSE IF list[n] = item THEN Kept[n - 1]
            ELSE Append(Kept[n - 1], list[n])
    IN  Kept[Len(list)]

\* list.remove(item), of a list that has the item once.
Removed(list, item) == RemoveAt(list, CHOOSE i \in DOMAIN list : list[i] = item)
===============================================================================
