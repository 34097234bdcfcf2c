-------------------------------- MODULE Erc721 ---------------------------------
(***************************************************************************)
(* The NFT collections, as MarketMap.sol and the frontend use them: the    *)
(* owner of a token (ownerOf), its single approval (getApproved, approve)  *)
(* and the transfer that clears it. External code: the market only has the *)
(* interface IERC721.                                                      *)
(***************************************************************************)
EXTENDS Naturals

CONSTANTS
    Users,         \* accounts that own tokens
    Collections,   \* ERC721 contracts
    Ids,           \* token ids of a collection
    Burnable,      \* collections whose owners can burn a token
    NoOwner,       \* the owner of a burned token: ownerOf reverts
    ApprovedForAll \* <<user, spender>> pairs of setApprovalForAll, where a
                   \* spender is "seaport" or "conduit" (OpenSea's)

ASSUME Erc721Assumption ==
    /\ Users # {} /\ Collections # {} /\ Ids # {}
    /\ Burnable \subseteq Collections /\ NoOwner \notin Users
    /\ ApprovedForAll \subseteq Users \X {"seaport", "conduit"}

VARIABLES
    owner,    \* owner[c][t]
    approved  \* approved[c][t]: is Seaport the approved address of the token

erc721Vars == <<owner, approved>>

Erc721Type ==
    /\ owner \in [Collections -> [Ids -> Users \cup {NoOwner}]]
    /\ approved \in [Collections -> [Ids -> BOOLEAN]]

\* Any distribution of the tokens, none of them approved.
Erc721Init ==
    /\ owner \in [Collections -> [Ids -> Users]]
    /\ approved = [c \in Collections |-> [t \in Ids |-> FALSE]]

Exists(c, t) == owner[c][t] # NoOwner

CanMove(c, t, spender) ==
    \/ spender = "seaport" /\ approved[c][t]
    \/ <<owner[c][t], spender>> \in ApprovedForAll

MoveToken(c, t, u) ==
    /\ owner' = [owner EXCEPT ![c][t] = u]
    /\ approved' = [approved EXCEPT ![c][t] = FALSE]

\* approve(seaport, t), or approve of anybody else, by the owner.
SetApproval(c, t, toSeaport) ==
    /\ Exists(c, t)
    /\ approved[c][t] # toSeaport
    /\ approved' = [approved EXCEPT ![c][t] = toSeaport]
    /\ UNCHANGED owner

\* A transfer that neither the market nor Seaport hears of.
TransferToken(c, t, u) ==
    /\ Exists(c, t)
    /\ u # owner[c][t]
    /\ MoveToken(c, t, u)

\* A burned token is not minted again.
BurnToken(c, t) ==
    /\ c \in Burnable
    /\ Exists(c, t)
    /\ MoveToken(c, t, NoOwner)
================================================================================
