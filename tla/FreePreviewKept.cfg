SPECIFICATION MCSpec
CONSTANTS
    Nobody = Nobody
    ana = ana
    eva = eva
    box1 = box1
    box2 = box2
    d1 = d1
    f1 = f1
    wifi = wifi
    carrier = carrier
    visa = visa
    Accounts = {ana, eva}
    Inboxes = {box1, box2}
    Devices = {d1}
    Files = {f1}
    Nets = {wifi, carrier}
    Cards = {visa}
    LastUpload = 2
    WelcomeCap = 1
    Previews = 1
    NetPreviews = 1
    AnonCap = 1
    Credits <- MCCredits
    MaxDeaths = 0
INVARIANTS PreviewGivenBack
CHECK_DEADLOCK FALSE
