------------------------------- MODULE SurfacesMC -------------------------------
(* The surfaces' parts for TLC, each checked on its own in one run: a ring *)
(* of two slots, lapped more than once by a producer of five frames; two   *)
(* deliveries with room for one frame each; attachments to a bench that    *)
(* prevails over the browser's panel; the arbiter of three channels whose  *)
(* rules form a chain, told anything; and what the plugin that feeds them  *)
(* may do: a Manifest of one capability or of two, or one that is refused, *)
(* two operators at once, and a unit through two lives; and the documents  *)
(* of DeclarationsMC, gated and launched.                                  *)
EXTENDS Ring, Deliveries, Channels, Authority, DeclarationsMC, TLC

VARIABLE part
surfacesVars == <<part, ringVars, deliveryVars, channelVars, authorityVars, declarationVars>>

Words2 == {"clock", "payload"}
ChainOfRules == <<[prevails |-> "bench", over |-> "desk"],
                  [prevails |-> "desk", over |-> "panel"],
                  [prevails |-> "bench", over |-> "panel"]>>
OnBenchAndPanel == [b |-> "bench", p |-> "panel"]
Video == [lists |-> {"video"}, governs |-> {<<"publish", "video">>}]
VideoAndTurn == [lists |-> {"video", "turn"},
                  governs |-> {<<"publish", "video">>, <<"publish", "turn">>}]
TurnUngoverned == [VideoAndTurn EXCEPT !.governs = {<<"publish", "video">>}]
Manifests3 == {Video, VideoAndTurn, TurnUngoverned}
EitherOperator == Permutations(Deciders)
Clients == [b |-> "operator", p |-> "visitor"]

SurfacesInit ==
    /\ part \in {"ring", "deliveries", "channels", "arbiter", "authority", "declarations"}
    /\ Init /\ DeliveriesInit /\ ChannelsInit /\ AuthorityInit
    /\ IF part = "declarations" THEN DeclarationsInit ELSE NothingDeclared

SurfacesNext ==
    /\ UNCHANGED part
    /\ \/ part = "ring" /\ Next
            /\ UNCHANGED <<deliveryVars, channelVars, authorityVars, declarationVars>>
       \/ part = "deliveries" /\ DeliveriesNext
            /\ UNCHANGED <<ringVars, channelVars, authorityVars, declarationVars>>
       \/ part = "channels" /\ ChannelsNext
            /\ UNCHANGED <<ringVars, deliveryVars, authorityVars, declarationVars>>
       \/ part = "arbiter" /\ ArbiterNext
            /\ UNCHANGED <<ringVars, deliveryVars, surfaceVars, thread, said, authorityVars, declarationVars>>
       \/ part = "authority" /\ AuthorityNext
            /\ UNCHANGED <<ringVars, deliveryVars, channelVars, declarationVars>>
       \/ part = "declarations" /\ DeclarationsNext
            /\ UNCHANGED <<ringVars, deliveryVars, channelVars, authorityVars>>

SurfacesSpec == SurfacesInit /\ [][SurfacesNext]_surfacesVars
=================================================================================
