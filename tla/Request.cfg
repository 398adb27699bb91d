SPECIFICATION Spec
CONSTANTS
    kr = kr
    ks = ks
    kp = kp
    ke = ke
    kd = kd
    ar = ar
    ae = ae
    ao = ao
    gr = gr
    gs = gs
    ge = ge
    gd = gd
    m1 = m1
    m2 = m2
    Key = {kr, ks, kp, ke, kd, ar, ae, ao, gr, gs, ge, gd}
    Configs <- MCConfigs
    Kind <- MCKind
    Operations <- MCOperations
    Opts <- MCOpts
    MsgSizes = {0, 20, 32, 48, 64, 1006}
    HandlerSizes = {0, 1, 65530}
    MaxKeys = 1
    EMs <- MCEMs
    Nil = Nil
    Panic = Panic
INVARIANTS
    HeaderAgrees RequestArrives
    SignedAsAsked LimitedUsesNoKey StripsPadding
CHECK_DEADLOCK FALSE
