\* One client, one worker and the reconnection that README.md describes.
SPECIFICATION Spec
CONSTANTS
    MaxSession = 1
    Client = {c1}
    Device = {d1}
    InRange = {d1}
    Setting = {"x"}
    MaxCrash = 0
PROPERTIES RejoinsOnReconnect
