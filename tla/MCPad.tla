------------------------------- MODULE MCPad -------------------------------
EXTENDS Pad

\* A reply with these buttons low, triggers and stick.
LOCAL Reply(low, high, trigger, x) ==
  [function |-> 1, word1 |-> <<trigger, trigger, low, high>>, word2 |-> <<128, 128, x, 128>>]

MCReplies ==
  {Reply(255, 255, 0, 128), Reply(255, 255, 0, 134), Reply(255, 255, 0, 140),
   Reply(255, 251, 0, 128), Reply(255, 247, 255, 128),
   [Reply(255, 255, 0, 128) EXCEPT !.function = 2]}

\* Start and the left trigger share A's button, the stick drives the hat.
Shared ==
  [DefaultMap EXCEPT !.buttons = [@ EXCEPT !.start = "A", !.a = "LEFT_TRIGGER"],
     !.trigger_l = "A", !.stick_dest = "HAT", !.flags = {"invert_x"}]

MCBoots ==
  <<[map |-> DefaultMap, profile |-> "Xbox"], [map |-> Shared, profile |-> "Generic"]>>
=============================================================================
