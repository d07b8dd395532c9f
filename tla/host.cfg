\* Three vaults, one of them damaged, two passwords, a snippet, a desktop that may do anything.
SPECIFICATION Spec
CONSTANTS
    Vaults = {v1, v2, v3}
    Passwords = {pw1, pw2}
    PasswordOf <- MCPasswordOf
    Broken = {v3}
    Snippets = {s}
    v1 = v1
    v2 = v2
    v3 = v3
    pw1 = pw1
    pw2 = pw2
    s = s
    NoVault = NoVault
    NoRequest = NoRequest
INVARIANTS
    IInv
    NoKeyWithoutPassword
PROPERTIES
    HonestRefusals
    EveryRequestAnswered
    Refinement
