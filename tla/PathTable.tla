-------------------------------- MODULE PathTable ------------------------------
(***************************************************************************)
(* The table of migrate-imports.js: where each file of the library was,    *)
(* and where it is now, in the source's order. A path is a directory and a *)
(* name; all of them end in .sol.                                          *)
(***************************************************************************)
EXTENDS SequencesExt

\* Files that keep their names when they move.
Moved(from, to, names) ==
    [i \in 1..Len(names) |-> [old |-> <<from, names[i]>>, new |-> <<to, names[i]>>]]

Renamed(from, name, to, newName) ==
    <<[old |-> <<from, name>>, new |-> <<to, newName>>]>>

Table ==
    Moved("access", "governance", <<"TimelockController">>) \o
    Moved("cryptography", "utils/cryptography", <<"ECDSA", "MerkleProof">>) \o
    Moved("drafts", "utils/cryptography", <<"EIP712">>) \o
    Renamed("drafts", "ERC20Permit", "token/ERC20/extensions", "draft-ERC20Permit") \o
    Renamed("drafts", "IERC20Permit", "token/ERC20/extensions", "draft-IERC20Permit") \o
    Moved("GSN", "utils", <<"Context">>) \o
    Moved("introspection", "utils/introspection",
          <<"ERC165Checker", "ERC165", "ERC1820Implementer", "IERC165",
            "IERC1820Implementer", "IERC1820Registry">>) \o
    Moved("math", "utils/math", <<"Math", "SafeMath", "SignedSafeMath">>) \o
    Moved("payment/escrow", "utils/escrow",
          <<"ConditionalEscrow", "Escrow", "RefundEscrow">>) \o
    Moved("payment", "finance", <<"PaymentSplitter">>) \o
    Moved("utils", "finance", <<"PaymentSplitter">>) \o
    Moved("payment", "security", <<"PullPayment">>) \o
    Moved("presets", "token/ERC1155/presets", <<"ERC1155PresetMinterPauser">>) \o
    Moved("presets", "token/ERC20/presets",
          <<"ERC20PresetFixedSupply", "ERC20PresetMinterPauser">>) \o
    Moved("presets", "token/ERC721/presets", <<"ERC721PresetMinterPauserAutoId">>) \o
    Moved("presets", "token/ERC777/presets", <<"ERC777PresetFixedSupply">>) \o
    Moved("proxy", "proxy/beacon", <<"BeaconProxy", "IBeacon">>) \o
    Moved("proxy", "proxy/utils", <<"Initializable">>) \o
    Moved("utils", "proxy/utils", <<"Initializable">>) \o
    Moved("proxy", "proxy/transparent",
          <<"ProxyAdmin", "TransparentUpgradeableProxy">>) \o
    Moved("proxy", "proxy/beacon", <<"UpgradeableBeacon">>) \o
    Renamed("proxy", "UpgradeableProxy", "proxy/ERC1967", "ERC1967Proxy") \o
    Moved("token/ERC1155", "token/ERC1155/extensions", <<"ERC1155Burnable">>) \o
    Moved("token/ERC1155", "token/ERC1155/utils", <<"ERC1155Holder">>) \o
    Moved("token/ERC1155", "token/ERC1155/extensions", <<"ERC1155Pausable">>) \o
    Moved("token/ERC1155", "token/ERC1155/utils", <<"ERC1155Receiver">>) \o
    Moved("token/ERC1155", "token/ERC1155/extensions", <<"IERC1155MetadataURI">>) \o
    Moved("token/ERC20", "token/ERC20/extensions",
          <<"ERC20Burnable", "ERC20Capped", "ERC20Pausable", "ERC20Snapshot">>) \o
    Moved("token/ERC20", "token/ERC20/utils", <<"SafeERC20", "TokenTimelock">>) \o
    Moved("token/ERC721", "token/ERC721/extensions", <<"ERC721Burnable">>) \o
    Moved("token/ERC721", "token/ERC721/utils", <<"ERC721Holder">>) \o
    Moved("token/ERC721", "token/ERC721/extensions",
          <<"ERC721Pausable", "IERC721Enumerable", "IERC721Metadata">>) \o
    Moved("utils", "utils/structs", <<"EnumerableMap", "EnumerableSet">>) \o
    Moved("utils", "security", <<"Pausable", "ReentrancyGuard">>) \o
    Moved("utils", "utils/math", <<"SafeCast">>)
================================================================================
