-------------------------------- MODULE Gifts --------------------------------
(***************************************************************************)
(* test-protobuf-reflection: users who ask each other for gifts, answer    *)
(* requests and receive gifts, over the table of ExchangeGiftsInfo that    *)
(* ExchangeGiftsInfoMgr keeps. The application has stored the infos of the *)
(* Users; everyone else is found as an empty info whose uin is 0. goods is *)
(* the number of the gift a notification carries, 0 for none.              *)
(*                                                                         *)
(* gifts_ is empty, as the constructor leaves it: AskForGifts and          *)
(* SendGifts fail their assert where they look the gift up, which ends the *)
(* run (halt).                                                             *)
(*                                                                         *)
(* obj.infos is infos_, obj.halt the assert that failed. ref.gifts are the *)
(* gifts there are, ref.taken those received, in order, and ref.flags what *)
(* happened that the code does not provide for.                            *)
(***************************************************************************)
EXTENDS Integers, Sequences, FiniteSetsExt, SideBySide

CONSTANTS
  Users,                      \* positive numbers
  Stranger,                   \* a uin without an info
  MaxRequests, MaxToSame,     \* max_day_request_num_, max_day_request_num_to_same_one_
  MaxSends, MaxReceives,      \* max_day_send_num_, max_day_receive_num_
  MaxNotes,                   \* max_receive_gift_notification_num_
  TTL, Day,
  Now,                        \* the time of the calls, which follow each other quickly
  MaxStored,                  \* bound on the notifications there are at first
  MaxIds                      \* bound on the notifications of a user

\* A user starts with up to two notifications.
ASSUME GiftsAssumption ==
  /\ Users \subseteq Nat \ {0} /\ IsFiniteSet(Users)
  /\ MaxToSame \in Nat /\ MaxSends \in Nat /\ MaxReceives \in Nat
  /\ MaxIds \in Nat /\ MaxIds >= 2

Empty == [uin |-> 0, sends |-> <<>>, receives |-> <<>>, requests |-> <<>>, notes |-> <<>>,
          login |-> 0, next |-> 0, unprocessed |-> 0]
Cleared == [uin |-> 0, id |-> 0, type |-> "REQUEST_GIFT", time |-> 0, goods |-> 0]

\* User u has k notifications of a type, from the uins in "from".
Stored(u, k, type, from, login) ==
  [Empty EXCEPT !.uin = u, !.login = login, !.next = k,
                !.notes = [i \in 1 .. k |-> [Cleared EXCEPT !.uin = from[i], !.id = i - 1, !.time = i - 1, !.type = type, !.goods = 10 * u + i]]]

GiftsInit ==
  /\ kind = "Gifts"
  /\ \E k \in [Users -> 0 .. 2], type \in {"REQUEST_GIFT", "RECEIVE_GIFT"},
        login \in {0, Now + Day + 1}, from \in [1 .. 2 -> Users \cup {Stranger}] :
       /\ MapThenSumSet(LAMBDA u : k[u], Users) <= MaxStored
       /\ type = "RECEIVE_GIFT" => login = 0
       /\ obj = [infos |-> [u \in Users |-> Stored(u, k[u], type, from, login)], halt |-> "no"]
       /\ ref = [gifts |-> UNION {{10 * u + i : i \in 1 .. k[u]} : u \in Users}, taken |-> <<>>, flags |-> {}]

GetExchangeGiftsInfo(o, uin) == IF uin \in DOMAIN o.infos THEN o.infos[uin] ELSE Empty
UpdateExchangeGiftsInfo(o, info) ==
  [o EXCEPT !.infos = [uin \in DOMAIN o.infos \cup {info.uin} |-> IF uin = info.uin THEN info ELSE o.infos[uin]]]

\* ReachToSameUinLimit and its three uses.
ReachToSameUinLimit(records, uin) == Cardinality({i \in DOMAIN records : records[i] = uin}) > MaxToSame

\* Mutant: always the first slot.
NewNotificationFirst(notes) ==
  [notes |-> IF notes = <<>> THEN <<Cleared>> ELSE notes, slot |-> 1]

\* NewNotification for RECEIVE_GIFT: the last deleted slot, a new one, or the earliest of the
\* type when there are too many. A slot that is used again keeps the type NIL.
NewNotification(notes) ==
  LET same == {i \in DOMAIN notes : notes[i].type = "RECEIVE_GIFT"}
      free == {i \in DOMAIN notes : notes[i].type = "NIL"}
      earliest == Min({i \in same : \A j \in same : notes[i].time <= notes[j].time})
  IN IF Cardinality(same) >= MaxNotes
     THEN [notes |-> [notes EXCEPT ![earliest] = [Cleared EXCEPT !.type = "RECEIVE_GIFT"]], slot |-> earliest]
     ELSE IF free = {} THEN [notes |-> Append(notes, Cleared), slot |-> Len(notes) + 1]
     ELSE [notes |-> notes, slot |-> Max(free)]
\* find_if, CopyFrom, Clear and set_type(NIL); 0 stands for not found.
FindNotification(notes, id) ==
  LET at == {i \in DOMAIN notes : notes[i].id = id} IN IF at = {} THEN 0 ELSE Min(at)
Freed(info, i) == [info EXCEPT !.notes[i] = [Cleared EXCEPT !.type = "NIL"]]

\* The notification of a gift from uin, with IncreaseAddNotificationId.
Notify(info, uin, goods, time) ==
  LET new == NewNotification(info.notes)
  IN [info EXCEPT !.notes = [new.notes EXCEPT ![new.slot] = [@ EXCEPT !.uin = uin, !.id = info.next, !.time = time, !.goods = goods]],
                  !.next = @ + 1, !.unprocessed = @ + 1]

Flagged(r, conditions) == [r EXCEPT !.flags = @ \cup {c \in DOMAIN conditions : conditions[c]}]

\* infos_ is gone with the process.
Abort(why) ==
  /\ obj' = [infos |-> <<>>, halt |-> why]
  /\ ref' = [gifts |-> {}, taken |-> <<>>, flags |-> {}]

\* AskForGifts and SendGifts up to the assert on gifts_.
AskForGifts(self, recipient) ==
  LET mine == GetExchangeGiftsInfo(obj, self)
      theirs == GetExchangeGiftsInfo(obj, recipient)
  IN /\ obj.halt = "no"
     /\ Len(mine.requests) <= MaxRequests /\ ~ReachToSameUinLimit(mine.requests, recipient)
     /\ Len(theirs.sends) <= MaxSends /\ ~ReachToSameUinLimit(mine.sends, recipient)
     /\ Abort("gifts_")
SendGifts(self, recipient) ==
  LET mine == GetExchangeGiftsInfo(obj, self)
  IN /\ obj.halt = "no"
     /\ Len(mine.sends) <= MaxSends /\ ~ReachToSameUinLimit(mine.sends, recipient)
     /\ Abort("gifts_")

ReplyGiftRequest(self, id) ==
  LET mine == GetExchangeGiftsInfo(obj, self)
      i == FindNotification(mine.notes, id)
      n == mine.notes[i]
      theirs == GetExchangeGiftsInfo(obj, n.uin)
      slot == NewNotification(theirs.notes).slot
  IN /\ obj.halt = "no"
     /\ Len(mine.sends) <= MaxSends /\ i # 0 /\ ~ReachToSameUinLimit(mine.sends, n.uin)
     /\ theirs.next < MaxIds
     /\ obj' = LET sent == [Freed(mine, i) EXCEPT !.sends = Append(@, n.uin)]
               IN UpdateExchangeGiftsInfo(UpdateExchangeGiftsInfo(obj, sent), Notify(theirs, self, n.goods, Now))
     /\ ref' = Flagged(ref, [self |-> n.uin = self,
                             stranger |-> theirs.uin = 0,
                             reused |-> slot \in DOMAIN theirs.notes /\ theirs.notes[slot].type = "NIL",
                             evicted |-> Cardinality({k \in DOMAIN theirs.notes : theirs.notes[k].type = "RECEIVE_GIFT"}) >= MaxNotes])

ReceiveGift(self, id) ==
  LET mine == GetExchangeGiftsInfo(obj, self)
      i == FindNotification(mine.notes, id)
      n == mine.notes[i]
  IN /\ obj.halt = "no"
     /\ i # 0 /\ Len(mine.receives) <= MaxReceives /\ ~ReachToSameUinLimit(mine.receives, n.uin)
     /\ obj' = UpdateExchangeGiftsInfo(obj, [Freed(mine, i) EXCEPT !.receives = Append(@, n.uin)])
     /\ ref' = [ref EXCEPT !.taken = IF n.goods = 0 THEN @ ELSE Append(@, n.goods)]

NotificationNotExpired(n) == Now - n.time < TTL

\* The login time is compared the wrong way round; uin and last_notification_id go with the
\* rest of the info.
ClearInfoIfExpired(self) ==
  LET mine == GetExchangeGiftsInfo(obj, self)
      kept == SelectSeq(mine.notes, NotificationNotExpired)
  IN /\ obj.halt = "no" /\ mine.login - Now > Day
     /\ obj' = UpdateExchangeGiftsInfo(obj, [Empty EXCEPT !.login = Now, !.notes = kept])
     /\ ref' = Flagged(ref, [cleared |-> TRUE])

GiftsNext ==
  /\ kind = "Gifts" /\ UNCHANGED kind
  /\ \E self \in Users :
       \/ ClearInfoIfExpired(self)
       \/ \E recipient \in Users : AskForGifts(self, recipient) \/ SendGifts(self, recipient)
       \/ \E id \in 0 .. MaxIds - 1 : ReplyGiftRequest(self, id) \/ ReceiveGift(self, id)

GiftsSpec == GiftsInit /\ [][GiftsNext]_vars

-----------------------------------------------------------------------------
Holding(goods) ==
  {h \in (DOMAIN obj.infos) \X (1 .. MaxIds) :
     h[2] \in DOMAIN obj.infos[h[1]].notes /\ obj.infos[h[1]].notes[h[2]].goods = goods}
Received(goods) == Cardinality({i \in DOMAIN ref.taken : ref.taken[i] = goods})

\* A gift is with one user or was received once. It is there twice only after a user answered
\* a request of their own, whose two updates overwrite each other, or an info was cleared,
\* which saves the rest of it under uin 0. It is lost only when its slot is given out, which
\* happens to a slot that was freed before as well as to the earliest of too many, or when
\* the requester has no info. The limits let through one more than they say, and only a
\* freed slot shares the id of a gift.
GiftsAccounted ==
  kind = "Gifts" =>
    /\ \A g \in ref.gifts :
         LET copies == Cardinality(Holding(g)) + Received(g)
         IN /\ ref.flags \cap {"self", "cleared"} = {} => copies <= 1
            /\ ref.flags \cap {"reused", "evicted", "stranger"} = {} => copies >= 1
    /\ \A u \in DOMAIN obj.infos \cap Users :
         LET info == obj.infos[u]
         IN /\ Len(info.sends) <= MaxSends + 1 /\ Len(info.receives) <= MaxReceives + 1
            /\ \A v \in Users : Cardinality({i \in DOMAIN info.sends : info.sends[i] = v}) <= MaxToSame + 1
            /\ \A i, j \in DOMAIN info.notes :
                 i # j /\ info.notes[i].id = info.notes[j].id =>
                   info.notes[i].id = 0 /\ (info.notes[i].goods = 0 \/ info.notes[j].goods = 0)
=============================================================================
